---- MODULE Spec2Model ----
(***************************************************************************)
(* The automation-session engine of the LinkRight runner: the Express      *)
(* control API (linkright-runner/server/index.js) driving the singleton    *)
(* PlaywrightRunner (playwright-runner.js): start() with its navigation    *)
(* retry loop, stop()/cleanup(), pause()/resume(), and the keyboard        *)
(* automation loop startKeyboardAutomation().                              *)
(*                                                                         *)
(* Node runs every handler on one thread, so a handler is atomic between   *)
(* two awaits: each action below is the code from one await to the next.   *)
(* The class defines stop() twice; the later definition replaces the       *)
(* earlier one, so Stop* model the definition at lines 2937-2961.          *)
(***************************************************************************)
EXTENDS Integers, Sequences, FiniteSets, TLC

\* ------------------------------------------------------------------ bounds
NumItems  == 3     \* distinct post identifiers
NumSighted == 2    \* identifiers a page that follows no script brings into focus
NumStarts == 2     \* POST /api/runner/start requests in one behaviour
NumLoops  == 2     \* POST /api/runner/start-keyboard requests in one behaviour
MaxPosted == 3     \* cap on sessionStats.commentsPosted
TickMs    == 2500  \* granularity of the clock that runs during a cool-down
RequestedMaxActions == 1   \* thresholds.maxActions the session is configured with

\* ------------------------------------------------------- program constants
MAX_ATTEMPTS       == 3
BACKOFF_DELAYS     == <<2000, 4000, 6000>>
DefaultTabDelayMin == 1000
DefaultTabDelayMax == 2000
DefaultCooldownMin == 5000
DefaultCooldownMax == 10000
DefaultMaxActions  == 10

Items  == 1..NumItems
None   == 0                 \* isInsidePost() returned null
Starts == 1..NumStarts
Sighted == {None} \cup 1..NumSighted
Loops  == 1..NumLoops
NoPage == 0                 \* this.page === null
Unset  == -1                \* no isInsidePost() result of the advance loop yet

\* The ranges a start-keyboard payload may carry: timing.waitBetweenComments
\* (min, max) and timing.waitAction (tabMin, tabMax); 0 stands for an absent key.
TimingChoices ==
  { [min |-> 5000, max |-> 5000, tabMin |-> 0, tabMax |-> 0],
    [min |-> 0, max |-> 0, tabMin |-> 0, tabMax |-> 0] }
NoTiming == [min |-> -1, max |-> -1, tabMin |-> -1, tabMax |-> -1]        \* runner.timing === null

\* The bodies a start-keyboard request may carry: optimizeEngagement,
\* postAnalysisWebhook (present or not) and timing (absent: NoTiming).
Payloads == [opt : BOOLEAN, hook : BOOLEAN, tm : TimingChoices \cup {NoTiming}]

\* What stop() returns: {success, message, stats: finalStats}, finalStats
\* being the copy of sessionStats taken before resetStats(). The object has
\* no `artifacts` key: the definition of stop() that carries the trace and
\* video paths is replaced by the later definition of the same name.
ArtifactKeys == {"traceFile", "videoFile"}
NoReply == [op |-> "none", status |-> 0, state |-> "-"]
NoResponse == [stats |-> -1, artifacts |-> {}]
StopReturns(finalStats) == [stats |-> finalStats, artifacts |-> {}]

VARIABLES
  \* --- PlaywrightRunner fields
  isRunning, keyboardLoopActive, isPaused, stopRequested,
  page, browser, context, seenPostIds, optimizeEngagement, postAnalysisWebhook,
  commentsPosted, domCache, timing,
  \* --- the browser pages ever created (page s belongs to start request s)
  pageStatus,
  \* --- one process per start request
  startPc, startAttempt, startResult, startArtifacts, startSleeps, startAuth, startPage,
  \* --- the stop handler
  stopPc, stopPage, stopResponse,
  \* --- one process per startKeyboardAutomation() invocation
  loopPc, loopPost, loopPage, loopObs, loopDecision,
  cdLen, cdTotal, cdActive, tabLen,
  \* --- observers (not program state)
  startLive, stopPhase, entered, declined, lastCmd, ctlReply,
  \* --- the act sequence: engageWithPost() from the paste on, against a stub editor
  engPc, engEditor, engText, engPageOk, engContent, engTried, engVerified, engPaste,
  engSubmitted, engResult,
  \* --- one outbound request against a stub service, on a clock
  callKind, callService, callBody, callPc, callClock, callArmed, callResult, callVerdict,
  \* --- one waitForPageReadiness(): when each candidate appears, which waits
  \* have settled, the clock, and what Promise.race() gave
  rdAppear, rdSettled, rdClock, rdResult,
  \* --- the page under the loop: its focus order and the stop that has focus
  feed,
  \* --- the browser extension: the widget of the content script (its flags
  \* and the elements it keeps in the page), the stored toolbar-icon flag,
  \* the UPDATE_ICON_STATE messages on their way to the background and the
  \* chrome.storage.local.set callbacks of closeStickyTab() not yet run
  sidebarOpen, sidebarShown, miniIconVisible, miniIconEl, iconActive, iconMsgs, stickySaves,
  \* --- the Home countdown: Date.now(), the stored 'linkright.timerState', and
  \* for every renderHomeControls() call on the current page its closure
  \* (state, whether its interval runs, the seconds its Start button shows);
  \* which closures ticked at this clock value; and counters of countdowns
  \* started, launch messages sent and page reloads
  now, timerStore, clState, clInterval, clLabel, rendered, ticked, started, launches, reloads,
  \* --- one pass of the settings form through sanitizeSettings(), twice
  formSettings, sanitized, sanitizePc,
  \* --- the background's StorageManager (_cache, _writeQueue, whether
  \* _batchWriteTimer is pending), the batches of the flushWriteQueue() calls
  \* awaiting chrome.storage.local.set(), chrome.storage.local itself, and the
  \* number of set() calls made
  smCache, smQueue, smTimer, smWrites, smStore, smSets

runnerVars == <<isRunning, keyboardLoopActive, isPaused, stopRequested, page, browser,
                context, seenPostIds, optimizeEngagement, postAnalysisWebhook,
                commentsPosted, domCache, timing>>
startVars  == <<startPc, startAttempt, startResult, startArtifacts, startSleeps, startAuth,
                startPage>>
stopVars   == <<stopPc, stopPage, stopResponse>>
loopVars   == <<loopPc, loopPost, loopPage, loopObs, loopDecision>>
cdVars     == <<cdLen, cdTotal, cdActive>>
obsVars    == <<startLive, stopPhase, entered, declined, lastCmd>>
engVars    == <<engPc, engEditor, engText, engPageOk, engContent, engTried, engVerified,
                engPaste, engSubmitted, engResult>>
callVars   == <<callKind, callService, callBody, callPc, callClock, callArmed, callResult,
                callVerdict>>
readyVars  == <<rdAppear, rdSettled, rdClock, rdResult>>
uiVars     == <<sidebarOpen, sidebarShown, miniIconVisible, miniIconEl, iconActive, iconMsgs,
                stickySaves>>
cntVars    == <<now, timerStore, clState, clInterval, clLabel, rendered, ticked, started,
                launches, reloads>>
setVars    == <<formSettings, sanitized, sanitizePc>>
smVars     == <<smCache, smQueue, smTimer, smWrites, smStore, smSets>>
extVars    == <<uiVars, cntVars, setVars, smVars>>
coreVars   == <<runnerVars, pageStatus, startVars, stopVars, loopVars, cdVars, tabLen, obsVars,
                ctlReply, engVars, callVars, readyVars, feed>>
vars == <<coreVars, extVars>>

NoCmd == [by |-> 0, kind |-> "none"]
KeyCmd(l) == [by |-> l, kind |-> "key"]     \* a Tab press of the loop itself
ActCmd(l) == [by |-> l, kind |-> "act"]     \* a command of the act sequence

\* ------------------------------------------------- the editor of a post
\* text.trim().length >= 10: what every verification of an insertion tests
MinVerifiedLength == 10
HasContent(len) == len >= MinVerifiedLength

\* The comment editors the act sequence may meet: whether the editor can be
\* found and focused, whether the paste shortcut inserts the clipboard,
\* what document.execCommand('insertText') does (inserts, returns without
\* inserting, or no editor is found), and whether typing inserts.
Editors == [focus : BOOLEAN, clip : BOOLEAN, exec : {"insert", "noop", "fail"}, type : BOOLEAN]
NoEditor == [focus |-> FALSE, clip |-> FALSE, exec |-> "fail", type |-> FALSE]

\* Lengths of the generated comment, below and above the verified length.
TextLengths == {MinVerifiedLength - 1, MinVerifiedLength + 2}

\* No act sequence is being followed step by step.
EngageIdle ==
  /\ engPc = "idle" /\ engEditor = NoEditor /\ engText = 0 /\ engPageOk = TRUE
  /\ engContent = 0 /\ engTried = <<>> /\ engVerified = FALSE /\ engPaste = "none"
  /\ engSubmitted = FALSE /\ engResult = "none"

NoBody == [kind |-> "empty", key |-> "-", value |-> "-"]
NoService == [kind |-> "none", at |-> 0, body |-> 0]
CallIdle ==
  /\ callKind = "none" /\ callService = NoService /\ callPc = "idle" /\ callClock = 0
  /\ callArmed = FALSE /\ callResult = "none"
  /\ callBody = NoBody /\ callVerdict = "none"

NumCandidates == 3
Candidates == 1..NumCandidates
Never == -1
ReadyIdle ==
  /\ rdAppear = [c \in Candidates |-> Never] /\ rdSettled = Candidates
  /\ rdClock = 0 /\ rdResult = "none"

\* The focus order of the page under the loop: layout[k] is the post that
\* isInsidePost() finds around the k-th focus stop (None: outside every
\* post), `at` the stop that has focus (0: before the first). A page that
\* follows no script has the empty layout, and isInsidePost() is free.
NoFeed == [layout |-> <<>>, at |-> 0]
FeedIdle == feed = NoFeed

\* await this.page.keyboard.press('Tab'): focus moves to the next stop, and
\* stays on the last one, which a scripted layout puts outside every post.
FocusNext(f) == IF f.at < Len(f.layout) THEN [f EXCEPT !.at = @ + 1] ELSE f

\* isInsidePost() on a scripted page.
InFocus(f) == IF f.at = 0 THEN None ELSE f.layout[f.at]

\* The widget after setup() on a freshly loaded page, and the icon flag after
\* chrome.runtime.onInstalled: sidebar closed, no mini icon, icon gray.
UiIdle ==
  /\ sidebarOpen = FALSE /\ sidebarShown = FALSE
  /\ miniIconVisible = FALSE /\ miniIconEl = FALSE
  /\ iconActive = FALSE /\ iconMsgs = <<>> /\ stickySaves = 0

\* No Home controls rendered, nothing stored.
NumRenders == 2
Renders == 1..NumRenders
TimerTickMs == 5000
NoTimer == [startedAt |-> 0, pausedAt |-> 0, durationMs |-> 0]
TimerIdle ==
  /\ now = TimerTickMs /\ timerStore = NoTimer
  /\ clState = [c \in Renders |-> NoTimer] /\ clInterval = [c \in Renders |-> FALSE]
  /\ clLabel = [c \in Renders |-> 0] /\ rendered = 0 /\ ticked = {}
  /\ started = 0 /\ launches = 0 /\ reloads = 0

\* The settings fields sanitizeSettings() treats as numbers.
NumericFields ==
  {"maxActions", "waitActionMinMs", "waitActionMaxMs", "waitAfterCommentMinMs",
   "waitAfterCommentMaxMs", "waitBetweenCommentsMinMs", "waitBetweenCommentsMaxMs"}
NoSettings == [f \in NumericFields |-> 0]
SettingsIdle ==
  formSettings = NoSettings /\ sanitized = NoSettings /\ sanitizePc = "idle"

\* new StorageManager() over an empty chrome.storage.local; Absent stands for
\* a key that has no value.
SmKeys == {"engagementMode", "runnerState"}
Absent == 0
StorageIdle ==
  /\ smCache = [k \in SmKeys |-> Absent] /\ smQueue = <<>> /\ smTimer = FALSE
  /\ smWrites = <<>> /\ smStore = [k \in SmKeys |-> Absent] /\ smSets = 0

ExtIdle == UiIdle /\ TimerIdle /\ SettingsIdle /\ StorageIdle

\* ------------------------------------------------------------------- Init
\* The state after `new PlaywrightRunner()` and before any request.
Init ==
  /\ isRunning = FALSE /\ keyboardLoopActive = FALSE /\ isPaused = FALSE
  /\ stopRequested = FALSE
  /\ page = NoPage /\ browser = 0 /\ context = 0
  /\ seenPostIds = {} /\ optimizeEngagement = FALSE /\ postAnalysisWebhook = FALSE
  /\ commentsPosted = 0
  /\ domCache = [i \in Items |-> "none"]
  /\ timing = NoTiming
  /\ pageStatus = [s \in Starts |-> "none"]
  /\ startPc = [s \in Starts |-> "idle"]
  /\ startAttempt = [s \in Starts |-> 0]
  /\ startResult = [s \in Starts |-> "none"]
  /\ startArtifacts = [s \in Starts |-> <<>>]
  /\ startSleeps = [s \in Starts |-> <<>>]
  /\ startAuth = [s \in Starts |-> 0]
  /\ startPage = [s \in Starts |-> NoPage]
  /\ stopPc = "idle" /\ stopPage = NoPage /\ stopResponse = NoResponse
  /\ loopPc = [l \in Loops |-> "none"]
  /\ loopPost = [l \in Loops |-> None]
  /\ loopPage = [l \in Loops |-> NoPage]
  /\ loopObs = [l \in Loops |-> Unset]
  /\ loopDecision = [l \in Loops |-> "none"]
  /\ cdLen = [l \in Loops |-> 0]
  /\ tabLen = [l \in Loops |-> 0]
  /\ cdTotal = [l \in Loops |-> 0]
  /\ cdActive = [l \in Loops |-> 0]
  /\ startLive = [s \in Starts |-> FALSE]
  /\ stopPhase = [l \in Loops |-> "none"]
  /\ entered = [l \in Loops |-> [i \in Items |-> 0]]
  /\ declined = {}
  /\ lastCmd = NoCmd /\ ctlReply = NoReply
  /\ EngageIdle
  /\ CallIdle
  /\ ReadyIdle
  /\ FeedIdle
  /\ ExtIdle

\* ------------------------------------------------- the Playwright page
\* A command issued on this.page now: "null" when this.page is null (a
\* TypeError), "ok" on an open page; while page.close() is in flight the
\* command races with it and either still runs or is rejected ("closed").
IssueOutcomes ==
  IF page = NoPage THEN {"null"}
  ELSE IF pageStatus[page] = "open" THEN {"ok"}
  ELSE IF pageStatus[page] = "closing" THEN {"ok", "closed"}
  ELSE {"closed"}

\* A wait (waitForTimeout) issued earlier on page p and completing now.
WaitOutcomes(p) ==
  IF p = NoPage THEN {"closed"}
  ELSE IF pageStatus[p] = "open" THEN {"ok"}
  ELSE IF pageStatus[p] = "closing" THEN {"ok", "closed"}
  ELSE {"closed"}


\* ------------------------------------------------------------- cleanup()
\* cleanup() is shared by stop() and by a failing start(). It awaits
\* page.close() and browser.close(); `h` is the handle being closed.
CleanupPhase == IF page # NoPage THEN "cuPage" ELSE IF browser # 0 THEN "cuBrowser" ELSE "done"
CleanupHandle == IF page # NoPage THEN page ELSE browser

Closing(ps, h) == IF h # 0 /\ ps[h] = "open" THEN [ps EXCEPT ![h] = "closing"] ELSE ps
Closed(ps, h) == IF h # 0 THEN [ps EXCEPT ![h] = "closed"] ELSE ps

\* isRunning = false; if (this.page) await this.page.close() ...
CleanupBeginKeepsRunning ==
  /\ pageStatus' = Closing(pageStatus, CleanupHandle)
  /\ UNCHANGED <<isRunning, page, browser>>
CleanupBegin ==
  /\ isRunning' = FALSE
  /\ pageStatus' = Closing(pageStatus, CleanupHandle)
  /\ UNCHANGED <<page, browser>>

\* ... this.page = null; if (this.browser) await this.browser.close() ...
CleanupAfterPage(h) ==
  /\ page' = NoPage
  /\ pageStatus' = Closing(Closed(pageStatus, h), browser)
  /\ UNCHANGED <<isRunning, browser>>

\* ... this.browser = null
CleanupAfterBrowser(h) ==
  /\ browser' = 0
  /\ pageStatus' = Closed(pageStatus, h)
  /\ UNCHANGED <<isRunning, page>>

\* ------------------------------------------------ POST /api/runner/start
\* The route and start() both test isRunning; start() sets it only after the
\* browser has been launched.
StartAccepts == ~isRunning

StartRequest(s) ==
  /\ startPc[s] = "idle"
  /\ \A t \in Starts : t < s => startPc[t] # "idle"
  /\ IF StartAccepts
       THEN /\ stopRequested' = FALSE
            /\ startPc' = [startPc EXCEPT ![s] = "launching"]
            /\ startLive' = [startLive EXCEPT ![s] = TRUE]
            /\ UNCHANGED startResult
       ELSE /\ startPc' = [startPc EXCEPT ![s] = "done"]
            /\ startResult' = [startResult EXCEPT ![s] = "rejected"]
            /\ UNCHANGED <<stopRequested, startLive>>
  /\ lastCmd' = NoCmd /\ UNCHANGED <<feed, extVars>> /\ ctlReply' = NoReply
  /\ UNCHANGED <<isRunning, keyboardLoopActive, isPaused, page, browser, context,
                 seenPostIds, optimizeEngagement, postAnalysisWebhook, commentsPosted,
                 domCache, timing, pageStatus, startAttempt, startArtifacts, startSleeps, startAuth,
                 startPage, stopVars, loopVars, cdVars, tabLen, stopPhase, entered, declined, engVars, callVars, readyVars>>

\* start() returns a structured failure after cleanup(): the tail shared by
\* the NAV_TIMEOUT return and the catch block.
StartFail(s, code, phase, h) ==
  /\ startPc' = [startPc EXCEPT ![s] = phase]
  /\ startResult' = [startResult EXCEPT ![s] = code]
  /\ startPage' = [startPage EXCEPT ![s] = h]
  /\ startLive' = [startLive EXCEPT ![s] = FALSE]

\* chromium.launchPersistentContext() and tracing.start() have settled.
StartLaunched(s) ==
  /\ startPc[s] = "launching"
  /\ \E ok \in BOOLEAN, hasBrowser \in BOOLEAN :
       IF ok
         THEN /\ context' = s
              /\ page' = s
              /\ browser' = IF hasBrowser THEN s ELSE 0
              /\ pageStatus' = [pageStatus EXCEPT ![s] = "open"]
              /\ isRunning' = TRUE
              /\ startPc' = [startPc EXCEPT ![s] = "nav"]
              /\ startAttempt' = [startAttempt EXCEPT ![s] = 1]
              /\ UNCHANGED <<startResult, startPage, startLive>>
         ELSE /\ hasBrowser = FALSE
              /\ CleanupBegin
              /\ StartFail(s, "START_ERROR", CleanupPhase, CleanupHandle)
              /\ UNCHANGED <<context, startAttempt>>
  /\ lastCmd' = NoCmd /\ UNCHANGED <<feed, extVars>> /\ ctlReply' = NoReply
  /\ UNCHANGED <<keyboardLoopActive, isPaused, stopRequested, seenPostIds,
                 optimizeEngagement, postAnalysisWebhook, commentsPosted, domCache, timing,
                 startArtifacts, startSleeps, startAuth, stopVars, loopVars, cdVars, tabLen, stopPhase,
                 entered, declined, engVars, callVars, readyVars>>

\* --------------------------------------- navigateToLinkedInWithRetries()
\* for (let attempt = 1; attempt <= MAX_ATTEMPTS; attempt++)
AttemptAllowedOneMore(attempt) == attempt <= MAX_ATTEMPTS + 1
AttemptAllowed(attempt) == attempt <= MAX_ATTEMPTS
\* if (attempt < MAX_ATTEMPTS) await this.page.waitForTimeout(backoff)
BackoffAfterEvery(attempt) == attempt <= MAX_ATTEMPTS
BackoffAfter(attempt) == attempt < MAX_ATTEMPTS
\* const backoffDelay = BACKOFF_DELAYS[attempt - 1] (sequences count from 1)
BackoffDelay(attempt) == BACKOFF_DELAYS[attempt]

\* One attempt, RS being the results the page-ready check can give: goto, dismissCookieBanner, checkLoginRequired, waitForLogin,
\* waitForPageReadiness. Every failure inside it (a throw of goto or of
\* waitForLogin, readiness false) lands in the attempt's catch block.
NavTry(s, RS) ==
  /\ startPc[s] = "nav"
  /\ AttemptAllowed(startAttempt[s])
  /\ \E o \in IssueOutcomes, ready \in RS :
       IF o = "ok" /\ ready
         THEN \* return {success: true}; start(): bringToFront, updateHUD, return
              /\ startPc' = [startPc EXCEPT ![s] = "done"]
              /\ startResult' = [startResult EXCEPT ![s] = "ok"]
              /\ startArtifacts' = [startArtifacts EXCEPT ![s] = <<>>]
         ELSE /\ startPc' = [startPc EXCEPT ![s] = "capture"]
              /\ UNCHANGED <<startResult, startArtifacts>>
  /\ lastCmd' = NoCmd /\ UNCHANGED <<feed, extVars>> /\ ctlReply' = NoReply
  /\ UNCHANGED <<runnerVars, pageStatus, startAttempt, startSleeps, startAuth, startPage, stopVars,
                 loopVars, cdVars, tabLen, startLive, stopPhase, entered, declined, engVars, callVars, readyVars>>

\* An attempt in which checkLoginRequired() returns true and the user does
\* not log in: waitForLogin() throws 'User did not complete login within 5
\* minutes' after its 300000 ms, into the attempt's catch block.
NavLoginTimeout(s) ==
  /\ startPc[s] = "nav"
  /\ AttemptAllowed(startAttempt[s])
  /\ "ok" \in IssueOutcomes
  /\ startPc' = [startPc EXCEPT ![s] = "capture"]
  /\ startAuth' = [startAuth EXCEPT ![s] = @ + 1]
  /\ lastCmd' = NoCmd /\ UNCHANGED <<feed, extVars>> /\ ctlReply' = NoReply
  /\ UNCHANGED <<runnerVars, pageStatus, startAttempt, startResult, startArtifacts,
                 startSleeps, startPage, stopVars, loopVars, cdVars, tabLen, startLive, stopPhase,
                 entered, declined, engVars, callVars, readyVars>>

\* The catch block of an attempt: screenshot, mini-trace, then the backoff
\* sleep; after the last attempt the loop ends and the failure is returned.
NavCapture(s) ==
  /\ startPc[s] = "capture"
  /\ \E o \in IssueOutcomes :
       LET a == startAttempt[s]
           shot == IF o = "ok" THEN << <<"screenshot", a>> >> ELSE <<>>
           trace == IF context # 0 THEN << <<"trace", a>> >> ELSE <<>>
       IN /\ startArtifacts' = [startArtifacts EXCEPT ![s] = @ \o shot \o trace]
          /\ IF BackoffAfter(a)
               THEN IF page = NoPage
                      THEN \* this.page.waitForTimeout throws out of the catch block
                           /\ CleanupBegin
                           /\ StartFail(s, "START_ERROR", CleanupPhase, CleanupHandle)
                           /\ UNCHANGED <<startAttempt, startSleeps>>
                      ELSE /\ startPc' = [startPc EXCEPT ![s] = "backoff"]
                           /\ startPage' = [startPage EXCEPT ![s] = page]
                           /\ startSleeps' =
                                [startSleeps EXCEPT ![s] = Append(@, BackoffDelay(a))]
                           /\ UNCHANGED <<isRunning, page, browser, pageStatus,
                                          startResult, startLive, startAttempt>>
               ELSE IF AttemptAllowed(a + 1)
                      THEN /\ startPc' = [startPc EXCEPT ![s] = "nav"]
                           /\ startAttempt' = [startAttempt EXCEPT ![s] = a + 1]
                           /\ UNCHANGED <<isRunning, page, browser, pageStatus,
                                          startResult, startLive, startPage, startSleeps>>
                      ELSE \* return {success: false, hint, artifacts}; start(): cleanup
                           /\ CleanupBegin
                           /\ StartFail(s, "NAV_TIMEOUT", CleanupPhase, CleanupHandle)
                           /\ UNCHANGED <<startAttempt, startSleeps>>
  /\ UNCHANGED startAuth
  /\ lastCmd' = NoCmd /\ UNCHANGED <<feed, extVars>> /\ ctlReply' = NoReply
  /\ UNCHANGED <<keyboardLoopActive, isPaused, stopRequested, context, seenPostIds,
                 optimizeEngagement, postAnalysisWebhook, commentsPosted, domCache, timing,
                 stopVars, loopVars, cdVars, tabLen, stopPhase, entered, declined, engVars, callVars, readyVars>>

\* The backoff sleep ends: the next attempt, or a throw when the page died.
NavBackoff(s) ==
  /\ startPc[s] = "backoff"
  /\ \E o \in WaitOutcomes(startPage[s]) :
       IF o = "ok" /\ AttemptAllowed(startAttempt[s] + 1)
         THEN /\ startPc' = [startPc EXCEPT ![s] = "nav"]
              /\ startAttempt' = [startAttempt EXCEPT ![s] = @ + 1]
              /\ startPage' = [startPage EXCEPT ![s] = NoPage]
              /\ UNCHANGED <<isRunning, page, browser, pageStatus, startResult, startLive>>
         ELSE IF o = "ok"
         THEN /\ CleanupBegin
              /\ StartFail(s, "NAV_TIMEOUT", CleanupPhase, CleanupHandle)
              /\ UNCHANGED startAttempt
         ELSE /\ CleanupBegin
              /\ StartFail(s, "START_ERROR", CleanupPhase, CleanupHandle)
              /\ UNCHANGED startAttempt
  /\ lastCmd' = NoCmd /\ UNCHANGED <<feed, extVars>> /\ ctlReply' = NoReply
  /\ UNCHANGED <<keyboardLoopActive, isPaused, stopRequested, context, seenPostIds,
                 optimizeEngagement, postAnalysisWebhook, commentsPosted, domCache, timing,
                 startArtifacts, startSleeps, startAuth, stopVars, loopVars, cdVars, tabLen, stopPhase,
                 entered, declined, engVars, callVars, readyVars>>

\* cleanup() of a failing start() resumes after page.close() / browser.close().
StartCleanupPage(s) ==
  /\ startPc[s] = "cuPage"
  /\ CleanupAfterPage(startPage[s])
  /\ startPc' = [startPc EXCEPT ![s] = IF browser # 0 THEN "cuBrowser" ELSE "done"]
  /\ startPage' = [startPage EXCEPT ![s] = browser]
  /\ lastCmd' = NoCmd /\ UNCHANGED <<feed, extVars>> /\ ctlReply' = NoReply
  /\ UNCHANGED <<keyboardLoopActive, isPaused, stopRequested, context, seenPostIds,
                 optimizeEngagement, postAnalysisWebhook, commentsPosted, domCache, timing,
                 startAttempt, startResult, startArtifacts, startSleeps, startAuth, stopVars,
                 loopVars, cdVars, tabLen, startLive, stopPhase, entered, declined, engVars, callVars, readyVars>>

StartCleanupBrowser(s) ==
  /\ startPc[s] = "cuBrowser"
  /\ CleanupAfterBrowser(startPage[s])
  /\ startPc' = [startPc EXCEPT ![s] = "done"]
  /\ startPage' = [startPage EXCEPT ![s] = NoPage]
  /\ lastCmd' = NoCmd /\ UNCHANGED <<feed, extVars>> /\ ctlReply' = NoReply
  /\ UNCHANGED <<keyboardLoopActive, isPaused, stopRequested, context, seenPostIds,
                 optimizeEngagement, postAnalysisWebhook, commentsPosted, domCache, timing,
                 startAttempt, startResult, startArtifacts, startSleeps, startAuth, stopVars,
                 loopVars, cdVars, tabLen, startLive, stopPhase, entered, declined, engVars, callVars, readyVars>>


\* ------------------------------------------------- POST /api/runner/stop
\* The route answers 400 unless isRunning. stop(): keyboardLoopActive = false,
\* cleanupTempData(), await cleanup(), then resetStats() and seenPostIds.clear().
PhaseOf(pc) ==
  CASE pc \in {"top", "tabPress", "tabDelay"} -> "tabbing"
    [] pc = "pauseWait" -> "paused"
    [] pc = "deciding" -> "deciding"
    [] pc \in {"act", "generate"} -> "acting"
    [] pc = "cooldown" -> "cooling"
    [] pc \in {"advKey", "advCheck"} -> "advancing"
    [] OTHER -> "none"

\* The statements of stop() after `await this.cleanup()`.
StopTail ==
  /\ commentsPosted' = 0
  /\ seenPostIds' = {}
  /\ stopPc' = "idle"
  /\ stopPage' = NoPage
  /\ stopResponse' = StopReturns(commentsPosted)

StopRequest ==
  /\ stopPc = "idle"
  /\ isRunning
  /\ keyboardLoopActive' = FALSE
  /\ CleanupBegin
  /\ IF CleanupPhase = "done"
       THEN StopTail
       ELSE /\ stopPc' = CleanupPhase
            /\ stopPage' = CleanupHandle
            /\ UNCHANGED <<commentsPosted, seenPostIds, stopResponse>>
  /\ startLive' = [s \in Starts |-> FALSE]
  /\ stopPhase' = [l \in Loops |-> PhaseOf(loopPc[l])]
  /\ lastCmd' = NoCmd /\ UNCHANGED <<feed, extVars>> /\ ctlReply' = NoReply
  /\ UNCHANGED <<isPaused, stopRequested, context, optimizeEngagement,
                 postAnalysisWebhook, domCache, timing, startVars, loopVars, cdVars, tabLen,
                 entered, declined, engVars, callVars, readyVars>>

\* POST /api/runner/stop while not running: 400, nothing changes.
StopRejected ==
  /\ stopPc = "idle"
  /\ ~isRunning
  /\ lastCmd' = NoCmd /\ UNCHANGED <<feed, extVars>> /\ ctlReply' = NoReply
  /\ UNCHANGED <<runnerVars, pageStatus, startVars, stopVars, loopVars, cdVars, tabLen,
                 startLive, stopPhase, entered, declined, engVars, callVars, readyVars>>

StopCleanupPage ==
  /\ stopPc = "cuPage"
  /\ CleanupAfterPage(stopPage)
  /\ IF browser # 0
       THEN /\ stopPc' = "cuBrowser"
            /\ stopPage' = browser
            /\ UNCHANGED <<commentsPosted, seenPostIds, stopResponse>>
       ELSE StopTail
  /\ lastCmd' = NoCmd /\ UNCHANGED <<feed, extVars>> /\ ctlReply' = NoReply
  /\ UNCHANGED <<keyboardLoopActive, isPaused, stopRequested, context,
                 optimizeEngagement, postAnalysisWebhook, domCache, timing, startVars,
                 loopVars, cdVars, tabLen, startLive, stopPhase, entered, declined, engVars, callVars, readyVars>>

StopCleanupBrowser ==
  /\ stopPc = "cuBrowser"
  /\ CleanupAfterBrowser(stopPage)
  /\ StopTail
  /\ lastCmd' = NoCmd /\ UNCHANGED <<feed, extVars>> /\ ctlReply' = NoReply
  /\ UNCHANGED <<keyboardLoopActive, isPaused, stopRequested, context,
                 optimizeEngagement, postAnalysisWebhook, domCache, timing, startVars,
                 loopVars, cdVars, tabLen, startLive, stopPhase, entered, declined, engVars, callVars, readyVars>>

\* --------------------------------------- POST /api/runner/pause, /resume
\* Both routes answer 400 unless isRunning and keyboardLoopActive; the resume
\* route also answers 400 unless isPaused. pause() sets isPaused = true and
\* returns success whatever isPaused was.
RouteActive == isRunning /\ keyboardLoopActive

PauseAcceptsRunning == isRunning
PauseAccepts == RouteActive
ResumeAccepts == RouteActive /\ isPaused

Reply(op, ok) == [op |-> op, status |-> IF ok THEN 200 ELSE 400, state |-> "-"]

\* status: this.isPaused ? 'paused' : (this.keyboardLoopActive ? 'running' : 'stopped')
StatusOfLoopOnly(paused, active) == IF active THEN "running" ELSE "stopped"
StatusOf(paused, active) == IF paused THEN "paused" ELSE IF active THEN "running" ELSE "stopped"

\* GET /api/runner/status: getStatus() reads the runner's fields and assigns
\* none; the route sends the object it returns.
GetStatus ==
  /\ UNCHANGED <<feed, extVars>> /\ ctlReply' = [op |-> "status", status |-> 200,
                  state |-> StatusOf(isPaused, keyboardLoopActive)]
  /\ lastCmd' = NoCmd
  /\ UNCHANGED <<runnerVars, pageStatus, startVars, stopVars, loopVars, cdVars, tabLen,
                 startLive, stopPhase, entered, declined, engVars, callVars, readyVars>>

PauseRequest ==
  /\ isPaused' = IF PauseAccepts THEN TRUE ELSE isPaused
  /\ UNCHANGED <<feed, extVars>> /\ ctlReply' = Reply("pause", PauseAccepts)
  /\ lastCmd' = NoCmd
  /\ UNCHANGED <<isRunning, keyboardLoopActive, stopRequested, page, browser, context,
                 seenPostIds, optimizeEngagement, postAnalysisWebhook, commentsPosted,
                 domCache, timing, pageStatus, startVars, stopVars, loopVars, cdVars, tabLen,
                 startLive, stopPhase, entered, declined, engVars, callVars, readyVars>>

ResumeRequest ==
  /\ isPaused' = IF ResumeAccepts THEN FALSE ELSE isPaused
  /\ UNCHANGED <<feed, extVars>> /\ ctlReply' = Reply("resume", ResumeAccepts)
  /\ lastCmd' = NoCmd
  /\ UNCHANGED <<isRunning, keyboardLoopActive, stopRequested, page, browser, context,
                 seenPostIds, optimizeEngagement, postAnalysisWebhook, commentsPosted,
                 domCache, timing, pageStatus, startVars, stopVars, loopVars, cdVars, tabLen,
                 startLive, stopPhase, entered, declined, engVars, callVars, readyVars>>

\* ------------------------------------- POST /api/runner/start-keyboard
\* timing.waitBetweenComments?.min || runner.defaults.cooldownMin
OrDefault(v, d) == IF v = 0 THEN d ELSE v

FreeLoop(LS) == CHOOSE l \in LS : loopPc[l] = "none" /\ \A k \in LS : k < l => loopPc[k] # "none"

\* The route (400 unless isRunning and not keyboardLoopActive) stores the
\* payload in the runner and calls startKeyboardAutomation(), which throws
\* 'Runner not active' when this.page is null and otherwise runs up to its
\* first await: seenPostIds.clear(), keyboardLoopActive = true,
\* commentsPosted = 0.
StartKeyboard(LS, PS) ==
  /\ isRunning /\ ~keyboardLoopActive
  /\ \E l \in LS : loopPc[l] = "none"
  /\ \E body \in PS :
       /\ timing' = IF body.tm = NoTiming THEN timing
                    ELSE [min |-> OrDefault(body.tm.min, DefaultCooldownMin),
                          max |-> OrDefault(body.tm.max, DefaultCooldownMax),
                          tabMin |-> OrDefault(body.tm.tabMin, DefaultTabDelayMin),
                          tabMax |-> OrDefault(body.tm.tabMax, DefaultTabDelayMax)]
       /\ optimizeEngagement' = body.opt
       /\ postAnalysisWebhook' = body.hook
  /\ IF page = NoPage
       THEN UNCHANGED <<keyboardLoopActive, seenPostIds, commentsPosted, loopPc,
                        stopPhase, entered, declined>>
       ELSE /\ seenPostIds' = {}
            /\ keyboardLoopActive' = TRUE
            /\ commentsPosted' = 0
            /\ loopPc' = [loopPc EXCEPT ![FreeLoop(LS)] = "top"]
            /\ stopPhase' = [stopPhase EXCEPT ![FreeLoop(LS)] = "none"]
            /\ entered' = [entered EXCEPT ![FreeLoop(LS)] = [i \in Items |-> 0]]
            /\ declined' = {}
  /\ lastCmd' = NoCmd /\ UNCHANGED <<feed, extVars>> /\ ctlReply' = NoReply
  /\ UNCHANGED <<isRunning, isPaused, stopRequested, page, browser, context, domCache,
                 pageStatus, startVars, stopVars, loopPost, loopPage, loopObs,
                 loopDecision, cdVars, tabLen, startLive, engVars, callVars, readyVars>>


\* ------------------------------------------ checkEngagementDecision()
\* What executeWebhookRequest() meets: a failure kind, or a JSON body with
\* some casing of the verdict key and of its value.
FailureKinds == {"timeout", "network", "http", "empty", "badjson"}
Responses ==
  [kind : FailureKinds, key : {"-"}, value : {"-"}]
    \cup [kind : {"json"}, key : {"engage", "Engage", "ENGAGE"}, value : {"yes", "Yes", "YES", "no", "No", "NO"}]

ToLowerCase(v) ==
  CASE v \in {"yes", "Yes", "YES"} -> "yes"
    [] v \in {"no", "No", "NO"} -> "no"
    [] OTHER -> v

\* (result.engage || result.Engage || 'yes').toLowerCase(); the catch block
\* returns {engage: 'yes'} for every failure of the request.
DecisionVerdictFailClosed(resp) ==
  IF resp.kind \in FailureKinds THEN "no"
  ELSE IF resp.key \in {"engage", "Engage"} THEN ToLowerCase(resp.value)
  ELSE "yes"
DecisionVerdict(resp) ==
  IF resp.kind \in FailureKinds THEN "yes"
  ELSE IF resp.key \in {"engage", "Engage"} THEN ToLowerCase(resp.value)
  ELSE "yes"

\* this._domCache.set(cacheKey, ...) happens only for a parsed response.
CacheAfter(cache, post, resp) ==
  IF resp.kind = "json" THEN [cache EXCEPT ![post] = DecisionVerdict(resp)] ELSE cache

\* An entry older than _cacheTimeout (5 s) is ignored from then on.
CacheExpire(i) ==
  /\ domCache[i] # "none"
  /\ domCache' = [domCache EXCEPT ![i] = "none"]
  /\ lastCmd' = NoCmd /\ UNCHANGED <<feed, extVars>> /\ ctlReply' = NoReply
  /\ UNCHANGED <<isRunning, keyboardLoopActive, isPaused, stopRequested, page, browser,
                 context, seenPostIds, optimizeEngagement, postAnalysisWebhook,
                 commentsPosted, timing, pageStatus, startVars, stopVars, loopVars,
                 cdVars, tabLen, startLive, stopPhase, entered, declined, engVars, callVars, readyVars>>

\* ------------------------------------------- startKeyboardAutomation()
\* if (this.seenPostIds && this.seenPostIds.has(postData.postId)) continue
AlreadySeen(id) == id \in seenPostIds

\* checkPost && checkPost.postId && checkPost.postId !== currentPostId
FoundNewPostOrNone(checkPost, currentPostId) == checkPost # currentPostId
FoundNewPost(checkPost, currentPostId) == checkPost # None /\ checkPost # currentPostId

\* getThresholds(): Math.max(1, parseInt(thresholds.maxActions) || 10); the
\* value goes to the log and to the HUD only.
ClampMaxActions(v) == IF v = 0 THEN DefaultMaxActions ELSE IF v < 1 THEN 1 ELSE v
MaxActions == ClampMaxActions(RequestedMaxActions)

\* while (this.keyboardLoopActive && !this.stopRequested)
LoopContinuesBelowMax == keyboardLoopActive /\ ~stopRequested /\ commentsPosted < MaxActions
LoopContinues == keyboardLoopActive /\ ~stopRequested

\* t.cooldownMin + Math.floor(Math.random() * (t.cooldownMax - t.cooldownMin)),
\* on the grid of the clock.
DrawDelayBeyond(lo, hi) == {hi + TickMs}
DrawDelayOvershoot(lo, hi) == {lo + 2 * (hi - lo)}
DrawDelay(lo, hi) ==
  IF hi > lo THEN {d \in lo..(hi - 1) : (d - lo) % TickMs = 0}
  ELSE IF hi = lo THEN {lo}
  ELSE {d \in hi..lo : (lo - d) % TickMs = 0}

\* const t = this.timing || this.defaults
EffectiveTiming ==
  IF timing = NoTiming
    THEN [min |-> DefaultCooldownMin, max |-> DefaultCooldownMax,
          tabMin |-> DefaultTabDelayMin, tabMax |-> DefaultTabDelayMax]
  ELSE timing

LoopFrame ==
  UNCHANGED <<isRunning, isPaused, stopRequested, page, browser, context,
              optimizeEngagement, postAnalysisWebhook, timing, pageStatus, startVars,
              stopVars, startLive, engVars, callVars, readyVars>>

\* A position of the loop is the await it is suspended in:
\*   "top"       the updateHUD before the while loop
\*   "pauseWait" the randomDelay of the pause wait
\*   "tabPress"  the updateHUD before the Tab press
\*   "tabDelay"  page.waitForTimeout(tabDelay)
\*   "deciding"  checkEngagementDecision()
\*   "act"       the updateHUD before engageWithPost()
\*   "generate"  callWebhookFromRunner() inside engageWithPost()
\*   "cooldown"  page.waitForTimeout(cooldown)
\*   "advKey"    the updateHUD before the advance loop of the failure path
\*   "advCheck"  page.waitForTimeout(300) of an advance loop
\* loopPost is postData.postId, loopObs the last isInsidePost() result and
\* loopDecision the outcome of the decision request, each kept for one step.
Goto(l, pc, post, pg, obs, dec) ==
  /\ loopPc' = [loopPc EXCEPT ![l] = pc]
  /\ loopPost' = [loopPost EXCEPT ![l] = post]
  /\ loopPage' = [loopPage EXCEPT ![l] = pg]
  /\ loopObs' = [loopObs EXCEPT ![l] = obs]
  /\ loopDecision' = [loopDecision EXCEPT ![l] = dec]

ClearCooldown(l) ==
  /\ cdLen' = [cdLen EXCEPT ![l] = 0]
  /\ cdTotal' = [cdTotal EXCEPT ![l] = 0]
  /\ cdActive' = [cdActive EXCEPT ![l] = 0]
  /\ UNCHANGED tabLen

\* The loop ends (condition false, break, return or rethrow):
\* finally { this.keyboardLoopActive = false }
Exit(l) ==
  /\ Goto(l, "done", None, NoPage, Unset, "none")
  /\ keyboardLoopActive' = FALSE
  /\ stopPhase' = [stopPhase EXCEPT ![l] = "none"]

\* The head of an iteration, run by the continuation that ended the previous
\* one: the while condition, the pause wait (`await this.randomDelay(...)`,
\* a this.page.waitForTimeout outside the inner try), else on to
\* `await this.updateHUD()` and the Tab press.
LoopHead(l, post, obs, dec) ==
  IF ~LoopContinues THEN Exit(l)
  ELSE IF isPaused /\ page = NoPage THEN Exit(l)
  ELSE /\ IF isPaused
            THEN Goto(l, "pauseWait", post, page, obs, dec)
            ELSE Goto(l, "tabPress", post, NoPage, obs, dec)
       /\ UNCHANGED <<keyboardLoopActive, stopPhase>>

\* `continue`, or an exception the inner catch does not take for a closure.
Continue(l) == LoopHead(l, None, Unset, "none")

\* The updateHUD before the loop has settled.
LoopTop(l) ==
  /\ loopPc[l] = "top"
  /\ Continue(l)
  /\ lastCmd' = NoCmd /\ UNCHANGED <<feed, extVars>> /\ ctlReply' = NoReply
  /\ UNCHANGED <<seenPostIds, commentsPosted, domCache, cdVars, tabLen, entered, declined>>
  /\ LoopFrame

\* The pause wait has settled: the pause condition is tested again.
LoopPauseWake(l) ==
  /\ loopPc[l] = "pauseWait"
  /\ \E o \in WaitOutcomes(loopPage[l]) :
       IF o = "ok" THEN Continue(l) ELSE Exit(l)
  /\ lastCmd' = NoCmd /\ UNCHANGED <<feed, extVars>> /\ ctlReply' = NoReply
  /\ UNCHANGED <<seenPostIds, commentsPosted, domCache, cdVars, tabLen, entered, declined>>
  /\ LoopFrame

\* await this.page.keyboard.press('Tab'); then the tab delay is started.
LoopTabPress(l) ==
  /\ loopPc[l] = "tabPress"
  /\ \E o \in IssueOutcomes :
       CASE o = "ok" -> /\ Goto(l, "tabDelay", None, page, Unset, "none")
                        /\ \E d \in DrawDelay(EffectiveTiming.tabMin, EffectiveTiming.tabMax) :
                             tabLen' = [tabLen EXCEPT ![l] = d]
                        /\ lastCmd' = KeyCmd(l) /\ feed' = FocusNext(feed) /\ UNCHANGED extVars /\ ctlReply' = NoReply
                        /\ UNCHANGED <<keyboardLoopActive, stopPhase>>
         [] o = "closed" -> Exit(l) /\ lastCmd' = NoCmd /\ UNCHANGED <<feed, extVars>> /\ ctlReply' = NoReply /\ UNCHANGED tabLen
         [] o = "null" -> Continue(l) /\ lastCmd' = NoCmd /\ UNCHANGED <<feed, extVars>> /\ ctlReply' = NoReply /\ UNCHANGED tabLen
  /\ UNCHANGED <<seenPostIds, commentsPosted, domCache, cdVars, entered, declined>>
  /\ LoopFrame

\* A new post enters the pipeline: the decision call in optimize mode
\* (no webhook: 'yes'; a fresh cache entry: its verdict), else the act.
EnterPipeline(l, id) ==
  /\ seenPostIds' = seenPostIds \cup {id}
  /\ entered' = [entered EXCEPT ![l][id] = IF @ < 2 THEN @ + 1 ELSE @]
  /\ UNCHANGED declined
  /\ IF ~optimizeEngagement \/ ~postAnalysisWebhook \/ domCache[id] = "yes"
       THEN /\ Goto(l, "act", id, NoPage, id, "none")
            /\ UNCHANGED <<keyboardLoopActive, stopPhase>>
     ELSE IF domCache[id] # "none"
       THEN Continue(l)
     ELSE /\ Goto(l, "deciding", id, NoPage, id, "none")
          /\ UNCHANGED <<keyboardLoopActive, stopPhase>>

\* The tab delay ends; `if (this.stopRequested) break`; isInsidePost();
\* not on a post, or on a seen one: continue; else mark it seen and go on.
LoopDetect(l, OS) ==
  /\ loopPc[l] = "tabDelay"
  /\ \E w \in WaitOutcomes(loopPage[l]), o \in IssueOutcomes, obs \in OS :
       IF w = "closed" \/ stopRequested \/ o = "closed"
         THEN /\ Exit(l)
              /\ UNCHANGED <<seenPostIds, entered, declined>>
       ELSE IF o = "null" \/ obs = None
         THEN /\ Continue(l)
              /\ UNCHANGED <<seenPostIds, entered, declined>>
       ELSE IF AlreadySeen(obs)
         THEN /\ LoopHead(l, None, obs, "none")
              /\ UNCHANGED <<seenPostIds, entered, declined>>
       ELSE EnterPipeline(l, obs)
  /\ lastCmd' = NoCmd /\ UNCHANGED <<feed, extVars>> /\ ctlReply' = NoReply
  /\ UNCHANGED <<commentsPosted, domCache, cdVars, tabLen>>
  /\ LoopFrame

\* The decision request settles: `if (decision.engage !== 'yes') continue`.
LoopDecided(l) ==
  /\ loopPc[l] = "deciding"
  /\ \E resp \in Responses :
       /\ domCache' = CacheAfter(domCache, loopPost[l], resp)
       /\ declined' = IF DecisionVerdict(resp) # "yes"
                         THEN declined \cup {loopPost[l]} ELSE declined
       /\ IF DecisionVerdict(resp) # "yes"
            THEN LoopHead(l, None, Unset, resp.kind)
            ELSE /\ Goto(l, "act", loopPost[l], NoPage, Unset, resp.kind)
                 /\ UNCHANGED <<keyboardLoopActive, stopPhase>>
  /\ lastCmd' = NoCmd /\ UNCHANGED <<feed, extVars>> /\ ctlReply' = NoReply
  /\ UNCHANGED <<seenPostIds, commentsPosted, cdVars, tabLen, entered>>
  /\ LoopFrame

\* engageWithPost() returned false: the advance loop of the failure path.
ActFailed(l) ==
  /\ Goto(l, "advKey", loopPost[l], NoPage, Unset, "none")
  /\ UNCHANGED <<keyboardLoopActive, stopPhase, commentsPosted, cdVars, tabLen>>

\* engageWithPost() returned true: count, draw the cool-down, start waiting.
ActSucceeded(l) ==
  /\ UNCHANGED tabLen
  /\ commentsPosted' = IF commentsPosted < MaxPosted THEN commentsPosted + 1 ELSE commentsPosted
  /\ IF page = NoPage
       THEN /\ Continue(l)
            /\ UNCHANGED cdVars
       ELSE \E d \in DrawDelay(EffectiveTiming.min, EffectiveTiming.max) :
              /\ Goto(l, "cooldown", loopPost[l], page, Unset, "none")
              /\ cdLen' = [cdLen EXCEPT ![l] = d]
              /\ cdTotal' = [cdTotal EXCEPT ![l] = 0]
              /\ cdActive' = [cdActive EXCEPT ![l] = 0]
              /\ UNCHANGED <<keyboardLoopActive, stopPhase>>

\* engageWithPost(), first part: keyboard search for the Like and Comment
\* buttons, Enter to open the editor; then the content request is sent.
LoopActNavigate(l, FS) ==
  /\ loopPc[l] = "act"
  /\ \E o \in IssueOutcomes :
       IF o = "ok"
         THEN /\ lastCmd' = ActCmd(l) /\ UNCHANGED <<feed, extVars>> /\ ctlReply' = NoReply
              /\ \E found \in FS :
                   IF found
                     THEN /\ Goto(l, "generate", loopPost[l], NoPage, Unset, "none")
                          /\ UNCHANGED <<keyboardLoopActive, stopPhase, commentsPosted, cdVars, tabLen>>
                     ELSE ActFailed(l)
         ELSE /\ lastCmd' = NoCmd /\ UNCHANGED <<feed, extVars>> /\ ctlReply' = NoReply
              /\ ActFailed(l)
  /\ UNCHANGED <<seenPostIds, domCache, entered, declined>>
  /\ LoopFrame

\* engageWithPost(), second part: callWebhookFromRunner() settled; no text:
\* Escape and false; else paste, Tab x3, Enter and true.
LoopGenerated(l, TS) ==
  /\ loopPc[l] = "generate"
  /\ \E o \in IssueOutcomes, text \in TS :
       /\ lastCmd' = IF o = "ok" THEN ActCmd(l) ELSE NoCmd
       /\ UNCHANGED <<feed, extVars>> /\ ctlReply' = NoReply
       /\ IF o = "ok" /\ text THEN ActSucceeded(l) ELSE ActFailed(l)
  /\ UNCHANGED <<seenPostIds, domCache, entered, declined>>
  /\ LoopFrame

\* The clock of the cool-downs in progress: a due timer fires before the
\* clock moves on.
Tick ==
  /\ \E l \in Loops : loopPc[l] = "cooldown"
  /\ \A l \in Loops : loopPc[l] = "cooldown" => cdTotal[l] < cdLen[l]
  /\ cdTotal' = [l \in Loops |-> IF loopPc[l] = "cooldown" THEN cdTotal[l] + TickMs ELSE cdTotal[l]]
  /\ cdActive' = [l \in Loops |-> IF loopPc[l] = "cooldown" /\ ~isPaused
                                   THEN cdActive[l] + TickMs ELSE cdActive[l]]
  /\ lastCmd' = NoCmd /\ UNCHANGED <<feed, extVars>> /\ ctlReply' = NoReply
  /\ UNCHANGED <<runnerVars, pageStatus, startVars, stopVars, loopVars, cdLen, tabLen,
                 startLive, stopPhase, entered, declined, engVars, callVars, readyVars>>

\* while (!foundNewPost) { await this.page.keyboard.press('Tab');
\* await this.page.waitForTimeout(300); ... }: the press, `obs` being the
\* isInsidePost() result that did not end the loop.
PressAdvance(l, obs) ==
  \E o \in IssueOutcomes :
    CASE o = "ok" -> /\ Goto(l, "advCheck", loopPost[l], page, obs, "none")
                     /\ lastCmd' = KeyCmd(l) /\ feed' = FocusNext(feed) /\ UNCHANGED extVars /\ ctlReply' = NoReply
                     /\ UNCHANGED <<keyboardLoopActive, stopPhase>>
      [] o = "closed" -> Exit(l) /\ lastCmd' = NoCmd /\ UNCHANGED <<feed, extVars>> /\ ctlReply' = NoReply
      [] o = "null" -> Continue(l) /\ lastCmd' = NoCmd /\ UNCHANGED <<feed, extVars>> /\ ctlReply' = NoReply

\* await this.page.waitForTimeout(cooldown) settles; then the advance loop.
LoopCooldownDone(l) ==
  /\ loopPc[l] = "cooldown"
  /\ \E w \in WaitOutcomes(loopPage[l]) :
       IF w = "closed"
         THEN Exit(l) /\ lastCmd' = NoCmd /\ UNCHANGED <<feed, extVars>> /\ ctlReply' = NoReply
         ELSE /\ cdTotal[l] >= cdLen[l]
              /\ PressAdvance(l, Unset)
  /\ ClearCooldown(l)
  /\ UNCHANGED <<seenPostIds, commentsPosted, domCache, entered, declined>>
  /\ LoopFrame

\* The updateHUD of the failure path has settled; then the advance loop.
LoopAdvPress(l) ==
  /\ loopPc[l] = "advKey"
  /\ PressAdvance(l, Unset)
  /\ UNCHANGED <<seenPostIds, commentsPosted, domCache, cdVars, tabLen, entered, declined>>
  /\ LoopFrame

\* The 300 ms wait settles; isInsidePost(); the advance loop ends when
\* FoundNewPost, else it presses Tab again.
LoopAdvCheck(l, OS) ==
  /\ loopPc[l] = "advCheck"
  /\ \E w \in WaitOutcomes(loopPage[l]), o \in IssueOutcomes, obs \in OS :
       IF w = "closed" \/ o = "closed"
         THEN Exit(l) /\ lastCmd' = NoCmd /\ UNCHANGED <<feed, extVars>> /\ ctlReply' = NoReply
       ELSE LET checkPost == IF o = "null" THEN None ELSE obs
            IN /\ o = "null" => obs = None
               /\ IF FoundNewPost(checkPost, loopPost[l])
                    THEN LoopHead(l, loopPost[l], checkPost, "none") /\ lastCmd' = NoCmd /\ UNCHANGED <<feed, extVars>> /\ ctlReply' = NoReply
                    ELSE PressAdvance(l, checkPost)
  /\ UNCHANGED <<seenPostIds, commentsPosted, domCache, cdVars, tabLen, entered, declined>>
  /\ LoopFrame

\* ----------------------------- engageWithPost(): paste, Tab x3, Enter
\* The act sequence from `await this.pasteCommentReliably(aiComment)` on,
\* step by step against one editor. Positions of pasteCommentReliably():
\*   "focus"      clipboard.writeText and the evaluate that focuses the editor
\*   "clipboard"  the paste shortcut and its verification
\*   "exec"       execCommand('insertText') and its verification
\*   "type"       editor.click(), editor.type() and the final verification
\* and of engageWithPost() after it: "submit" (Tab x3, Enter), "done".
EngFrame ==
  UNCHANGED <<runnerVars, pageStatus, startVars, stopVars, loopVars, cdVars, tabLen, obsVars,
              ctlReply, feed, extVars, engEditor, engText, callVars, readyVars>>

\* pasteCommentReliably() returns r; engageWithPost() does not read it.
PasteReturns(r) ==
  /\ engPaste' = r
  /\ engPc' = "submit"

\* `return false` before any layer (editor not focused), or
\* catch (error) { return false } of pasteCommentReliably()
PasteFails ==
  /\ PasteReturns("false")
  /\ UNCHANGED <<engContent, engTried, engVerified>>

\* One layer has inserted what it could; its verification reads the editor.
LayerDone(layer, len, verify, next) ==
  /\ engTried' = Append(engTried, layer)
  /\ engContent' = len
  /\ IF verify /\ HasContent(len)
       THEN engVerified' = TRUE /\ PasteReturns("true")
     ELSE IF next = "none"
       THEN UNCHANGED engVerified /\ PasteReturns("false")
     ELSE UNCHANGED <<engVerified, engPaste>> /\ engPc' = next

\* Steps 1-2: copy to the clipboard, find and focus the editor.
EngFocus ==
  /\ engPc = "focus"
  /\ IF ~engPageOk THEN PasteFails
     ELSE IF ~engEditor.focus THEN PasteFails
     ELSE /\ engPc' = "clipboard"
          /\ UNCHANGED <<engContent, engTried, engVerified, engPaste>>
  /\ UNCHANGED <<engPageOk, engSubmitted, engResult>>
  /\ EngFrame

\* Step 3: the paste shortcut, then hasContent.
EngClipboard ==
  /\ engPc = "clipboard"
  /\ IF ~engPageOk THEN PasteFails
     ELSE LayerDone("clipboard",
                    engContent + (IF engEditor.clip THEN engText ELSE 0), TRUE, "exec")
  /\ UNCHANGED <<engPageOk, engSubmitted, engResult>>
  /\ EngFrame

\* Fallback 1: execCommand; verified only `if (execSuccess)`.
EngExec ==
  /\ engPc = "exec"
  /\ IF ~engPageOk THEN PasteFails
     ELSE LayerDone("execCommand",
                    engContent + (IF engEditor.exec = "insert" THEN engText ELSE 0),
                    engEditor.exec # "fail", "type")
  /\ UNCHANGED <<engPageOk, engSubmitted, engResult>>
  /\ EngFrame

\* Fallback 2: type the text, then the final verification.
EngType ==
  /\ engPc = "type"
  /\ IF ~engPageOk THEN PasteFails
     ELSE LayerDone("type",
                    engContent + (IF engEditor.type THEN engText ELSE 0), TRUE, "none")
  /\ UNCHANGED <<engPageOk, engSubmitted, engResult>>
  /\ EngFrame

\* Steps 7-8: Tab three times, Enter on the Post button, return true; a
\* throw of a key press is caught and engageWithPost() returns false.
EngSubmit ==
  /\ engPc = "submit"
  /\ engPc' = "done"
  /\ engSubmitted' = engPageOk
  /\ engResult' = IF engPageOk THEN "true" ELSE "false"
  /\ UNCHANGED <<engPageOk, engContent, engTried, engVerified, engPaste>>
  /\ EngFrame

\* The page is closed under the act sequence.
EngPageCloses ==
  /\ engPc \notin {"idle", "done"}
  /\ engPageOk
  /\ engPageOk' = FALSE
  /\ UNCHANGED <<engPc, engContent, engTried, engVerified, engPaste, engSubmitted,
                 engResult>>
  /\ EngFrame

\* ------------------------------------------------------------------ Next
\* The requests and handler steps of start requests SS with page-ready
\* results RS, and of automation runs LS with payloads PS on a page where
\* isInsidePost() gives a member of OS.
Lifecycle(SS, RS) ==
  \/ \E s \in SS : StartRequest(s)
  \/ \E s \in SS : StartLaunched(s)
  \/ \E s \in SS : NavTry(s, RS)
  \/ \E s \in SS : NavLoginTimeout(s)
  \/ \E s \in SS : NavCapture(s)
  \/ \E s \in SS : NavBackoff(s)
  \/ \E s \in SS : StartCleanupPage(s)
  \/ \E s \in SS : StartCleanupBrowser(s)
  \/ StopRequest
  \/ StopRejected
  \/ StopCleanupPage
  \/ StopCleanupBrowser

Automation(LS, OS, PS) ==
  \/ StartKeyboard(LS, PS)
  \/ \E l \in LS : LoopTop(l)
  \/ \E l \in LS : LoopPauseWake(l)
  \/ \E l \in LS : LoopTabPress(l)
  \/ \E l \in LS : LoopDetect(l, OS)
  \/ \E l \in LS : LoopDecided(l)
  \/ \E l \in LS : LoopActNavigate(l, BOOLEAN)
  \/ \E l \in LS : LoopGenerated(l, BOOLEAN)
  \/ Tick
  \/ \E l \in LS : LoopCooldownDone(l)
  \/ \E l \in LS : LoopAdvPress(l)
  \/ \E l \in LS : LoopAdvCheck(l, OS)

PauseResume ==
  \/ PauseRequest
  \/ ResumeRequest

\* The runner after start() has returned success.
SessionStarted ==
  \E hasBrowser \in BOOLEAN :
    /\ isRunning = TRUE /\ keyboardLoopActive = FALSE /\ isPaused = FALSE
    /\ stopRequested = FALSE
    /\ page = 1 /\ browser = (IF hasBrowser THEN 1 ELSE 0) /\ context = 1
    /\ seenPostIds = {} /\ optimizeEngagement = FALSE /\ postAnalysisWebhook = FALSE
    /\ commentsPosted = 0
    /\ domCache = [i \in Items |-> "none"]
    /\ timing = NoTiming
    /\ pageStatus = [s \in Starts |-> IF s = 1 THEN "open" ELSE "none"]
    /\ startPc = [s \in Starts |-> IF s = 1 THEN "done" ELSE "idle"]
    /\ startAttempt = [s \in Starts |-> IF s = 1 THEN 1 ELSE 0]
    /\ startResult = [s \in Starts |-> IF s = 1 THEN "ok" ELSE "none"]
    /\ startArtifacts = [s \in Starts |-> <<>>]
    /\ startSleeps = [s \in Starts |-> <<>>]
    /\ startAuth = [s \in Starts |-> 0]
    /\ startPage = [s \in Starts |-> NoPage]
    /\ stopPc = "idle" /\ stopPage = NoPage /\ stopResponse = NoResponse
    /\ loopPc = [l \in Loops |-> "none"]
    /\ loopPost = [l \in Loops |-> None]
    /\ loopPage = [l \in Loops |-> NoPage]
    /\ loopObs = [l \in Loops |-> Unset]
    /\ loopDecision = [l \in Loops |-> "none"]
    /\ cdLen = [l \in Loops |-> 0]
    /\ tabLen = [l \in Loops |-> 0]
    /\ cdTotal = [l \in Loops |-> 0]
    /\ cdActive = [l \in Loops |-> 0]
    /\ startLive = [s \in Starts |-> s = 1]
    /\ stopPhase = [l \in Loops |-> "none"]
    /\ entered = [l \in Loops |-> [i \in Items |-> 0]]
    /\ declined = {}
    /\ lastCmd = NoCmd /\ ctlReply = NoReply

\* The initial state of a session: start() has returned success.
InitSession == SessionStarted /\ EngageIdle /\ CallIdle /\ ReadyIdle /\ FeedIdle /\ ExtIdle

StopActions ==
  \/ StopRequest
  \/ StopRejected
  \/ StopCleanupPage
  \/ StopCleanupBrowser

\* The lifecycle from construction: concurrent start requests and stop.
Next ==
  Lifecycle(Starts, BOOLEAN)

Spec == Init /\ [][Next]_vars

\* One automation run in a started session, with pause, resume and stop.
NextSession ==
  \/ Automation({1}, Sighted, Payloads)
  \/ PauseResume
  \/ StopActions
  \/ \E i \in Items : CacheExpire(i)
  \/ GetStatus

SpecSession == InitSession /\ [][NextSession]_vars

\* A restart while a loop is suspended in updateHUD() or in its decision
\* request: stop, a second start whose page is ready at once, and
\* start-keyboard again, in optimize mode on a feed of one item.
RestartPayloads == {[opt |-> TRUE, hook |-> TRUE, tm |-> NoTiming]}

NextRestart ==
  \/ \E s \in Starts : StartRequest(s)
  \/ \E s \in Starts : StartLaunched(s)
  \/ \E s \in Starts : NavTry(s, {TRUE})
  \/ StopRequest
  \/ StopCleanupPage
  \/ StopCleanupBrowser
  \/ StartKeyboard(Loops, RestartPayloads)
  \/ \E l \in Loops : LoopTop(l)
  \/ \E l \in Loops : LoopTabPress(l)
  \/ \E l \in Loops : LoopDetect(l, {1, None})
  \/ \E l \in Loops : LoopDecided(l)
  \/ \E i \in Items : CacheExpire(i)

SpecRestart == Init /\ [][NextRestart]_vars

\* ---------------------------------------------- waitForPageReadiness()
\* readinessSelectors.map(selector => this.page.waitForSelector(selector,
\* {timeout: 30000}).then(success).catch(failure)) issues the waits one after
\* the other; Promise.race() takes the first of them to settle, a failure
\* included. Time is counted in units of the delay between two successive
\* waits; WaitUnits stands for the 30000 ms of each wait.
WaitUnits == 3
ReadyHorizon == WaitUnits + NumCandidates

WaitStart(c) == c - 1
WaitDeadline(c) == WaitStart(c) + WaitUnits

\* The wait for c resolves if c is visible before its deadline.
Appears(appear, c) == appear[c] # Never /\ appear[c] < WaitDeadline(c)
SettlesAt(appear, c) ==
  IF Appears(appear, c)
    THEN IF appear[c] > WaitStart(c) THEN appear[c] ELSE WaitStart(c)
    ELSE WaitDeadline(c)

\* if (result.success) return true; else return false
RaceResult(settled, appear, c) == IF Appears(appear, c) THEN "ready" ELSE "failed"

ReadyFrame ==
  UNCHANGED <<runnerVars, pageStatus, startVars, stopVars, loopVars, cdVars, tabLen, obsVars,
              ctlReply, feed, extVars, engVars, callVars, rdAppear>>

\* The wait for candidate c settles; the race is decided by the first.
ReadySettle(c) ==
  /\ c \notin rdSettled
  /\ SettlesAt(rdAppear, c) = rdClock
  /\ rdSettled' = rdSettled \cup {c}
  /\ rdResult' = IF rdResult = "none" THEN RaceResult(rdSettled, rdAppear, c) ELSE rdResult
  /\ UNCHANGED rdClock
  /\ ReadyFrame

ReadyAdvance ==
  /\ rdSettled # Candidates
  /\ \A c \in Candidates \ rdSettled : SettlesAt(rdAppear, c) > rdClock
  /\ rdClock' = rdClock + 1
  /\ UNCHANGED <<rdSettled, rdResult>>
  /\ ReadyFrame

InitReady ==
  /\ SessionStarted /\ EngageIdle /\ CallIdle /\ FeedIdle /\ ExtIdle
  /\ rdAppear \in [Candidates -> {Never} \cup 0..(ReadyHorizon - 1)]
  /\ rdSettled = {} /\ rdClock = 0 /\ rdResult = "none"

NextReady ==
  \/ \E c \in Candidates : ReadySettle(c)
  \/ ReadyAdvance

SpecReady == InitReady /\ [][NextReady]_vars

\* ------------------------------------------------- outbound requests
\* One request of checkEngagementDecision() (through executeWebhookRequest)
\* or of callWebhookFromRunner(), against a service that never answers,
\* fails the connection, sends the headers and then stalls, or sends the
\* headers and later the body. Time is in milliseconds, in steps of
\* CallTickMs; what is due at an instant happens before time goes on.
CallTickMs == 30000
CallHorizon == 240000
DecisionTimeout == 180000      \* timeout: 180000 in the decision request
GenerationTimeout == 30000     \* signal: AbortSignal.timeout(30000)

CallTimeout(kind) == IF kind = "decision" THEN DecisionTimeout ELSE GenerationTimeout

CallTimes == {t \in 0..(CallHorizon - CallTickMs) : t % CallTickMs = 0}
Services ==
  [kind : {"never"}, at : {0}, body : {0}]
    \cup [kind : {"error", "stall"}, at : CallTimes, body : {0}]
    \cup {sv \in [kind : {"answer"}, at : CallTimes, body : CallTimes] : sv.body >= sv.at}

\* executeWebhookRequest(): clearTimeout(timeoutId) as soon as fetch() has
\* resolved, before `await response.text()`. callWebhookFromRunner(): the
\* AbortSignal.timeout given to fetch() also aborts the reading of the body.
KeepsTimer(kind) == kind = "generation"

TimerDue == callArmed /\ callClock >= CallTimeout(callKind)
HeadersDue ==
  callPc = "fetch" /\ callService.kind \in {"stall", "answer"} /\ callService.at <= callClock
ErrorDue == callPc = "fetch" /\ callService.kind = "error" /\ callService.at <= callClock
BodyDue == callPc = "body" /\ callService.kind = "answer" /\ callService.body <= callClock

CallFrame ==
  UNCHANGED <<runnerVars, pageStatus, startVars, stopVars, loopVars, cdVars, tabLen, obsVars,
              ctlReply, feed, extVars, engVars, callKind, callService, callBody, readyVars>>

\* What the caller gets: checkEngagementDecision() a verdict, computed from
\* the body or by its catch block; callWebhookFromRunner() a comment or null.
Failure(kind) == [kind |-> kind, key |-> "-", value |-> "-"]
Bodies == {r \in Responses : r.kind \notin {"timeout", "network"}}

CallSettles(r) ==
  /\ callPc' = "done"
  /\ callResult' = IF r = "answer" /\ callBody.kind # "json" THEN "error" ELSE r
  /\ callVerdict' = IF callKind # "decision" THEN "none"
                    ELSE IF r = "answer" THEN DecisionVerdict(callBody)
                    ELSE IF r = "timeout" THEN DecisionVerdict(Failure("timeout"))
                    ELSE DecisionVerdict(Failure("network"))
  /\ callArmed' = FALSE
  /\ UNCHANGED callClock

\* await fetch(...) resolves with the response headers.
CallHeaders ==
  /\ HeadersDue
  /\ callPc' = "body"
  /\ callArmed' = (callArmed /\ KeepsTimer(callKind))
  /\ UNCHANGED <<callClock, callResult, callVerdict>>
  /\ CallFrame

\* await response.text() / response.json() resolves.
CallBody == BodyDue /\ CallSettles("answer") /\ CallFrame

\* fetch() rejects; the catch block turns it into {engage: 'yes'} / null.
CallFails == ErrorDue /\ CallSettles("error") /\ CallFrame

\* The abort timer fires while the request is pending.
CallAbort ==
  /\ callPc \in {"fetch", "body"}
  /\ TimerDue
  /\ CallSettles("timeout")
  /\ CallFrame

CallAdvance ==
  /\ callPc \in {"fetch", "body"}
  /\ ~TimerDue /\ ~HeadersDue /\ ~ErrorDue /\ ~BodyDue
  /\ callClock < CallHorizon
  /\ callClock' = callClock + CallTickMs
  /\ UNCHANGED <<callPc, callArmed, callResult, callVerdict>>
  /\ CallFrame

InitCall ==
  /\ SessionStarted /\ EngageIdle
  /\ callKind \in {"decision", "generation"} /\ callService \in Services
  /\ callBody \in Bodies
  /\ callPc = "fetch" /\ callClock = 0 /\ callArmed = TRUE /\ callResult = "none"
  /\ callVerdict = "none"
  /\ ReadyIdle
  /\ FeedIdle
  /\ ExtIdle

NextCall ==
  \/ CallHeaders
  \/ CallBody
  \/ CallFails
  \/ CallAbort
  \/ CallAdvance

SpecCall == InitCall /\ [][NextCall]_vars

\* One act sequence, from the paste on, for every editor and both lengths
\* of the generated comment.
InitEngage ==
  /\ SessionStarted
  /\ engPc = "focus" /\ engEditor \in Editors /\ engText \in TextLengths
  /\ engPageOk = TRUE /\ engContent = 0 /\ engTried = <<>> /\ engVerified = FALSE
  /\ engPaste = "none" /\ engSubmitted = FALSE /\ engResult = "none"
  /\ CallIdle
  /\ ReadyIdle
  /\ FeedIdle
  /\ ExtIdle

NextEngage ==
  \/ EngFocus
  \/ EngClipboard
  \/ EngExec
  \/ EngType
  \/ EngSubmit
  \/ EngPageCloses

SpecEngage == InitEngage /\ [][NextEngage]_vars

\* One automation run in default mode with stop, under the scheduling Node
\* guarantees: a settled await is resumed, a timer fires, cleanup() goes on.
\* What the feed shows and when requests arrive is left open.
LivePayloads == {[opt |-> FALSE, hook |-> FALSE, tm |-> NoTiming]}

NextLive ==
  \/ StartKeyboard({1}, LivePayloads)
  \/ LoopTop(1)
  \/ LoopTabPress(1)
  \/ LoopDetect(1, Sighted)
  \/ LoopActNavigate(1, BOOLEAN)
  \/ LoopGenerated(1, BOOLEAN)
  \/ Tick
  \/ LoopCooldownDone(1)
  \/ LoopAdvPress(1)
  \/ LoopAdvCheck(1, Sighted)
  \/ StopRequest
  \/ StopCleanupPage
  \/ StopCleanupBrowser

LiveFairness ==
  /\ WF_vars(LoopTop(1))
  /\ WF_vars(LoopTabPress(1))
  /\ WF_vars(LoopDetect(1, Sighted))
  /\ WF_vars(LoopActNavigate(1, BOOLEAN))
  /\ WF_vars(LoopGenerated(1, BOOLEAN))
  /\ WF_vars(Tick)
  /\ WF_vars(LoopCooldownDone(1))
  /\ WF_vars(LoopAdvPress(1))
  /\ WF_vars(LoopAdvCheck(1, Sighted))
  /\ WF_vars(StopCleanupPage)
  /\ WF_vars(StopCleanupBrowser)

SpecLive == InitSession /\ [][NextLive]_vars /\ LiveFairness

\* One automation run in default mode for every pair of ranges a payload can
\* give on the grid of the clock, with min below, equal to and above max.
DelayBounds == {TickMs, 3 * TickMs}
DelayPayloads ==
  [opt : {FALSE}, hook : {FALSE},
   tm : [min : DelayBounds, max : DelayBounds, tabMin : DelayBounds, tabMax : DelayBounds]]

NextDelay ==
  \/ StartKeyboard({1}, DelayPayloads)
  \/ LoopTop(1)
  \/ LoopTabPress(1)
  \/ LoopDetect(1, Sighted)
  \/ LoopActNavigate(1, BOOLEAN)
  \/ LoopGenerated(1, BOOLEAN)
  \/ Tick
  \/ LoopCooldownDone(1)
  \/ LoopAdvPress(1)
  \/ LoopAdvCheck(1, Sighted)

SpecDelay == InitSession /\ [][NextDelay]_vars

\* One automation run in default mode on a scripted page: the posts of
\* FeedOrder one after the other, each over one to MaxStops focus stops,
\* with or without a stop outside every post before it, and a last stop
\* outside every post. The stops are those the loop's own Tab presses
\* reach: the key presses of an act sequence stay inside the post acted on.
\* Every search of the act sequence finds its control and the content
\* request always returns text.
MaxStops == 2
FeedOrder == <<1, 2, 3>>
Run(x, n) == [k \in 1..n |-> x]
Layouts ==
  {Run(None, g[1]) \o Run(FeedOrder[1], n[1]) \o
   Run(None, g[2]) \o Run(FeedOrder[2], n[2]) \o
   Run(None, g[3]) \o Run(FeedOrder[3], n[3]) \o <<None>> :
     g \in [1..3 -> 0..1], n \in [1..3 -> 1..MaxStops]}
FeedPayloads ==
  [opt : {FALSE}, hook : BOOLEAN,
   tm : {NoTiming, [min |-> TickMs, max |-> TickMs, tabMin |-> TickMs, tabMax |-> TickMs]}]

InitFeed ==
  /\ SessionStarted /\ EngageIdle /\ CallIdle /\ ReadyIdle
  /\ feed \in [layout : Layouts, at : {0}]
  /\ ExtIdle

NextFeed ==
  \/ StartKeyboard({1}, FeedPayloads)
  \/ LoopTop(1)
  \/ LoopTabPress(1)
  \/ LoopDetect(1, {InFocus(feed)})
  \/ LoopActNavigate(1, {TRUE})
  \/ LoopGenerated(1, {TRUE})
  \/ Tick
  \/ LoopCooldownDone(1)
  \/ LoopAdvCheck(1, {InFocus(feed)})

SpecFeed == InitFeed /\ [][NextFeed]_vars

\* ------------------------------------- the widget: sidebar and mini icon
MaxPending == 3    \* UPDATE_ICON_STATE messages and storage callbacks in flight

CanSend == Len(iconMsgs) + stickySaves < MaxPending

\* chrome.runtime.sendMessage({type: 'UPDATE_ICON_STATE', active})
SendIconState(active) == iconMsgs' = Append(iconMsgs, active)

UiFrame == UNCHANGED <<coreVars, cntVars, setVars, smVars>>

\* openSidebar(): the flags are written first, miniIconVisible among them,
\* then hideMiniIcon() runs and returns at `if (!this.miniIconVisible)`.
HideMiniIconAfter(visible, el) == IF visible THEN FALSE ELSE el

OpenSidebar ==
  /\ CanSend
  /\ sidebarOpen' = TRUE /\ sidebarShown' = TRUE
  /\ miniIconVisible' = FALSE
  /\ miniIconEl' = HideMiniIconAfter(FALSE, miniIconEl)
  /\ SendIconState(TRUE)
  /\ UNCHANGED <<iconActive, stickySaves>>
  /\ UiFrame

\* closeSidebar(), from the close button of the open sidebar; showMiniIcon()
\* returns at once when miniIconVisible, else replaces the element.
CloseSidebar ==
  /\ sidebarShown /\ CanSend
  /\ sidebarOpen' = FALSE /\ sidebarShown' = FALSE
  /\ miniIconEl' = IF miniIconVisible THEN miniIconEl ELSE TRUE
  /\ miniIconVisible' = TRUE
  /\ SendIconState(TRUE)
  /\ UNCHANGED <<iconActive, stickySaves>>
  /\ UiFrame

\* closeStickyTab(), as the window message LR_TEST_CLOSE_STICKY calls it in
\* any state: hideMiniIcon(), the sidebar closed if open, the flags
\* reset, and chrome.storage.local.set() whose callback sends the message.
CloseStickyTab ==
  /\ CanSend
  /\ miniIconEl' = HideMiniIconAfter(miniIconVisible, miniIconEl)
  /\ miniIconVisible' = FALSE
  /\ sidebarOpen' = FALSE /\ sidebarShown' = FALSE
  /\ stickySaves' = stickySaves + 1
  /\ UNCHANGED <<iconActive, iconMsgs>>
  /\ UiFrame

\* The X button of the mini icon element.
StickyCloseClicked == miniIconEl /\ CloseStickyTab

\* The callback of closeStickyTab()'s chrome.storage.local.set().
StickySaved ==
  /\ stickySaves > 0
  /\ stickySaves' = stickySaves - 1
  /\ SendIconState(FALSE)
  /\ UNCHANGED <<sidebarOpen, sidebarShown, miniIconVisible, miniIconEl, iconActive>>
  /\ UiFrame

\* onMessage CLOSE_STICKY_TAB, sent by the background's onSuspend listener.
CloseStickyMessage ==
  /\ IF miniIconEl /\ ~sidebarOpen
       THEN miniIconEl' = FALSE /\ miniIconVisible' = FALSE
       ELSE UNCHANGED <<miniIconEl, miniIconVisible>>
  /\ UNCHANGED <<sidebarOpen, sidebarShown, iconActive, iconMsgs, stickySaves>>
  /\ UiFrame

\* The background's onMessage UPDATE_ICON_STATE: updateExtensionIcon() and
\* chrome.storage.local.set({'linkright.iconActive': !!message.active}).
IconStateDelivered ==
  /\ iconMsgs # <<>>
  /\ iconActive' = Head(iconMsgs)
  /\ iconMsgs' = Tail(iconMsgs)
  /\ UNCHANGED <<sidebarOpen, sidebarShown, miniIconVisible, miniIconEl, stickySaves>>
  /\ UiFrame

NextUi ==
  \/ OpenSidebar
  \/ CloseSidebar
  \/ StickyCloseClicked
  \/ CloseStickyTab
  \/ StickySaved
  \/ CloseStickyMessage
  \/ IconStateDelivered

SpecUi == InitSession /\ [][NextUi]_vars

\* ------------------------------------------ renderHomeControls(): countdown
\* The clock moves in steps of TimerTickMs up to TimerHorizon; every running
\* interval (setInterval(tick, 1000)) ticks at least once per step.
DefaultDurationMs == 10000
TimerHorizon == 6 * TimerTickMs
NumReloads == 1
MaxLaunches == 3

Max0(x) == IF x < 0 THEN 0 ELSE x

\* A mutant of remainingMs: the countdown restarts from the full duration.
RemainingRestarted(st, t) ==
  IF st = NoTimer THEN DefaultDurationMs
  ELSE IF st.durationMs # 0 THEN st.durationMs ELSE DefaultDurationMs

\* remainingMs(), with Date.now() = t
RemainingMs(st, t) ==
  IF st = NoTimer THEN DefaultDurationMs
  ELSE LET elapsed == IF st.pausedAt # 0 THEN st.pausedAt - st.startedAt
                      ELSE t - st.startedAt
           total == IF st.durationMs # 0 THEN st.durationMs ELSE DefaultDurationMs
       IN Max0(total - elapsed)

\* `if (state && !state.pausedAt && ms === 0)` of tick()
Fires(st, t) == st # NoTimer /\ st.pausedAt = 0 /\ RemainingMs(st, t) = 0

\* tick() of closure c whose state is st, the store holding `stored`: the
\* label, and when the countdown is over clearInterval, state = null,
\* save(null) and the launch message.
TickOf(c, st, interval, stored) ==
  IF Fires(st, now)
    THEN /\ clState' = [clState EXCEPT ![c] = NoTimer]
         /\ clInterval' = [clInterval EXCEPT ![c] = FALSE]
         /\ clLabel' = [clLabel EXCEPT ![c] = 0]
         /\ timerStore' = NoTimer
         /\ launches' = IF launches < MaxLaunches THEN launches + 1 ELSE launches
    ELSE /\ clState' = [clState EXCEPT ![c] = st]
         /\ clInterval' = [clInterval EXCEPT ![c] = interval]
         /\ clLabel' = [clLabel EXCEPT ![c] = RemainingMs(st, now)]
         /\ timerStore' = stored
         /\ UNCHANGED launches

TimerFrame == UNCHANGED <<coreVars, uiVars, setVars, smVars>>

\* updateSidebarContent() on the main view: renderHomeControls() makes a new
\* closure, starts its interval and load()s the stored state, then tick().
\* The intervals of the closures before it are never cleared.
RenderHome ==
  /\ rendered \in 1..(NumRenders - 1)
  /\ rendered' = rendered + 1
  /\ TickOf(rendered + 1, timerStore, TRUE, timerStore)
  /\ UNCHANGED <<now, ticked, started, reloads>>
  /\ TimerFrame

\* The page is (re)loaded: every closure and interval of the old page is
\* gone, chrome.storage.local is kept; setup() renders the sidebar once.
PageLoad ==
  /\ rendered = 0 \/ reloads < NumReloads
  /\ reloads' = IF rendered = 0 THEN reloads ELSE reloads + 1
  /\ rendered' = 1
  /\ ticked' = {}
  /\ IF Fires(timerStore, now)
       THEN /\ clState' = [c \in Renders |-> NoTimer]
            /\ clInterval' = [c \in Renders |-> FALSE]
            /\ clLabel' = [c \in Renders |-> 0]
            /\ timerStore' = NoTimer
            /\ launches' = IF launches < MaxLaunches THEN launches + 1 ELSE launches
       ELSE /\ clState' = [c \in Renders |-> IF c = 1 THEN timerStore ELSE NoTimer]
            /\ clInterval' = [c \in Renders |-> c = 1]
            /\ clLabel' = [c \in Renders |-> IF c = 1 THEN RemainingMs(timerStore, now) ELSE 0]
            /\ UNCHANGED <<timerStore, launches>>
  /\ UNCHANGED <<now, started>>
  /\ TimerFrame

\* An interval of closure c fires.
TimerTick(c) ==
  /\ clInterval[c] /\ c \notin ticked
  /\ ticked' = ticked \cup {c}
  /\ TickOf(c, clState[c], TRUE, timerStore)
  /\ UNCHANGED <<now, rendered, started, reloads>>
  /\ TimerFrame

\* start(), from the Start button of the controls rendered last; `ok` is
\* what preflight() returned.
StartCountdown(ok) ==
  /\ rendered > 0 /\ started < MaxLaunches
  /\ IF ok
       THEN /\ started' = started + 1
            /\ LET st == [startedAt |-> now, pausedAt |-> 0,
                          durationMs |-> DefaultDurationMs]
               IN TickOf(rendered, st, TRUE, st)
       ELSE UNCHANGED <<started, clState, clInterval, clLabel, timerStore, launches>>
  /\ UNCHANGED <<now, rendered, ticked, reloads>>
  /\ TimerFrame

\* pauseOrResume(), from the Pause button of the controls rendered last.
PauseOrResume ==
  /\ rendered > 0 /\ clState[rendered] # NoTimer
  /\ LET st == clState[rendered]
         next == IF st.pausedAt # 0
                   THEN [st EXCEPT !.startedAt = @ + (now - st.pausedAt), !.pausedAt = 0]
                   ELSE [st EXCEPT !.pausedAt = now]
     IN TickOf(rendered, next, clInterval[rendered], next)
  /\ UNCHANGED <<now, rendered, ticked, started, reloads>>
  /\ TimerFrame

\* Time passes: every running interval has ticked.
TimerAdvance ==
  /\ now < TimerHorizon
  /\ \A c \in Renders : clInterval[c] => c \in ticked
  /\ now' = now + TimerTickMs
  /\ ticked' = {}
  /\ UNCHANGED <<timerStore, clState, clInterval, clLabel, rendered, started, launches, reloads>>
  /\ TimerFrame

NextTimer ==
  \/ PageLoad
  \/ RenderHome
  \/ \E c \in Renders : TimerTick(c)
  \/ \E ok \in BOOLEAN : StartCountdown(ok)
  \/ PauseOrResume
  \/ TimerAdvance

SpecTimer == InitSession /\ [][NextTimer]_vars

\* ----------------------------------------------------- sanitizeSettings()
\* getFormSettings() reads every numeric input as parseInt(value) || 0, so
\* the fields arrive as integers, negative ones included.
FieldValues == -1..2
MinMaxPairs ==
  {<<"waitActionMinMs", "waitActionMaxMs">>,
   <<"waitAfterCommentMinMs", "waitAfterCommentMaxMs">>,
   <<"waitBetweenCommentsMinMs", "waitBetweenCommentsMaxMs">>}

\* A mutant of SwapPairs: the pairs are left as given.
KeepPairs(st) == st

\* minMaxPairs.forEach: `if (minVal > maxVal)` swap the two values.
SwapPairs(st) ==
  [f \in NumericFields |->
     IF \E pr \in MinMaxPairs : pr[1] = f /\ st[pr[1]] > st[pr[2]]
       THEN LET pr == CHOOSE q \in MinMaxPairs : q[1] = f IN st[pr[2]]
     ELSE IF \E pr \in MinMaxPairs : pr[2] = f /\ st[pr[1]] > st[pr[2]]
       THEN LET pr == CHOOSE q \in MinMaxPairs : q[2] = f IN st[pr[1]]
     ELSE st[f]]

\* numericFields.forEach: Math.max(0, parseInt(value) || 0); then the swap.
SanitizeSettings(st) == SwapPairs([f \in NumericFields |-> Max0(st[f])])

SettingsFrame == UNCHANGED <<coreVars, uiVars, cntVars, smVars>>

\* handleSaveSettings(): sanitizeSettings(getFormSettings())
SanitizeForm ==
  /\ sanitizePc = "form"
  /\ sanitized' = SanitizeSettings(formSettings)
  /\ sanitizePc' = "once"
  /\ UNCHANGED formSettings
  /\ SettingsFrame

\* The saved settings are shown in the form again and go through
\* sanitizeSettings() a second time.
SanitizeAgain ==
  /\ sanitizePc = "once"
  /\ formSettings' = sanitized
  /\ sanitized' = SanitizeSettings(sanitized)
  /\ sanitizePc' = "twice"
  /\ SettingsFrame

InitSettings ==
  /\ SessionStarted /\ EngageIdle /\ CallIdle /\ ReadyIdle /\ FeedIdle
  /\ UiIdle /\ TimerIdle /\ StorageIdle
  /\ formSettings \in [NumericFields -> FieldValues]
  /\ sanitized = NoSettings /\ sanitizePc = "form"

NextSettings ==
  \/ SanitizeForm
  \/ SanitizeAgain

SpecSettings == InitSettings /\ [][NextSettings]_vars

\* ------------------------------------------------ background StorageManager
MaxSets == 3
SmValues == 1..2
MaxWrites == 2     \* flushWriteQueue() calls awaiting their storage write

\* this._writeQueue.forEach(({key, value}) => { batch[key] = value }), from
\* entry i on: the last value of every key in the queue, Absent for others.
RECURSIVE BatchFrom(_, _, _)
BatchFrom(q, i, acc) ==
  IF i > Len(q) THEN acc
  ELSE BatchFrom(q, i + 1, [acc EXCEPT ![q[i].key] = q[i].value])

BatchOf(q) == BatchFrom(q, 1, [k \in SmKeys |-> Absent])

\* chrome.storage.local.set(batch)
Written(store, batch) ==
  [k \in SmKeys |-> IF batch[k] # Absent THEN batch[k] ELSE store[k]]

StorageFrame == UNCHANGED <<coreVars, uiVars, cntVars, setVars>>

\* set(key, value): cache, queue, and the batch timer is restarted.
SmSet(k, v) ==
  /\ smSets < MaxSets
  /\ smSets' = smSets + 1
  /\ smCache' = [smCache EXCEPT ![k] = v]
  /\ smQueue' = Append(smQueue, [key |-> k, value |-> v])
  /\ smTimer' = TRUE
  /\ UNCHANGED <<smWrites, smStore>>
  /\ StorageFrame

\* The batch timer fires: flushWriteQueue() up to its await.
SmFlush ==
  /\ smTimer /\ Len(smWrites) < MaxWrites
  /\ smTimer' = FALSE
  /\ smWrites' = IF smQueue = <<>> THEN smWrites ELSE Append(smWrites, BatchOf(smQueue))
  /\ UNCHANGED <<smCache, smQueue, smStore, smSets>>
  /\ StorageFrame

\* chrome.storage.local.set(batch) resolves: `this._writeQueue = []`.
SmWritten ==
  /\ smWrites # <<>>
  /\ smStore' = Written(smStore, Head(smWrites))
  /\ smWrites' = Tail(smWrites)
  /\ smQueue' = <<>>
  /\ UNCHANGED <<smCache, smTimer, smSets>>
  /\ StorageFrame

NextStorage ==
  \/ \E k \in SmKeys, v \in SmValues : SmSet(k, v)
  \/ SmFlush
  \/ SmWritten

SpecStorage == InitSession /\ [][NextStorage]_vars

TypeOK ==
  /\ isRunning \in BOOLEAN /\ keyboardLoopActive \in BOOLEAN /\ isPaused \in BOOLEAN
  /\ page \in 0..NumStarts /\ browser \in 0..NumStarts
  /\ seenPostIds \subseteq Items
  /\ commentsPosted \in 0..MaxPosted
  /\ \A l \in Loops : loopObs[l] \in Items \cup {None, Unset}

\* ---------------------------------------------------------------- claims
\* C1: within one run of startKeyboardAutomation() every post identifier
\* enters the decide/act pipeline at most once; it enters only when it is
\* not in seenPostIds, and the step that lets it in adds it.
C1_OncePerRun ==
  [][\A l \in Loops, i \in Items :
       /\ entered'[l][i] <= 1
       /\ entered'[l][i] > entered[l][i] => i \notin seenPostIds /\ i \in seenPostIds']_vars

\* A loop is executing when it has just issued a browser command or awaits
\* the decision request or the content request.
Executing(l) == lastCmd.by = l \/ loopPc[l] \in {"deciding", "generate"}

\* C2: at most one loop is executing at any time.
C2_SingleLoop == Cardinality({l \in Loops : Executing(l)}) <= 1

\* C3: at most one accepted start request is live (launching, navigating or
\* holding the session) at any time.
C3_OneLaunch == Cardinality({s \in Starts : startLive[s]}) <= 1

\* C4: every failure of the decision request yields the verdict 'yes', and
\* the loop goes on to the act with that post.
C4_FailOpen ==
  /\ \A r \in Responses : r.kind \in FailureKinds => DecisionVerdict(r) = "yes"
  /\ \A l \in Loops :
       loopDecision[l] \in FailureKinds => loopPc[l] = "act" /\ loopPost[l] \in Items

\* C4 witness: the decision request timed out and the loop is at the act.
C4_TimedOutActs ==
  \E l \in Loops : loopDecision[l] = "timeout" /\ loopPc[l] = "act"

\* C5: after a stop requested while the loop was tabbing, the loop issues
\* no command of the act sequence.
C5_NoActAfterStop ==
  \A l \in Loops : stopPhase[l] = "tabbing" => lastCmd # ActCmd(l)

\* C6: after a stop requested while the loop was advancing past a post, the
\* loop presses no further key.
C6_NoKeyAfterStop ==
  \A l \in Loops : stopPhase[l] = "advancing" => lastCmd # KeyCmd(l)

C8_QuietWhilePaused == isPaused => lastCmd = NoCmd

\* C9: a cool-down ends only after its full length has elapsed unpaused.
C9_PauseExcluded ==
  [][\A l \in Loops :
       loopPc[l] = "cooldown" /\ loopPc'[l] = "advCheck" => cdActive[l] >= cdLen[l]]_vars

C11_OneEntryPerAttempt ==
  \A s \in Starts :
    /\ startResult[s] = "NAV_TIMEOUT" => Len(startArtifacts[s]) = MAX_ATTEMPTS
    /\ startResult[s] = "ok" => startArtifacts[s] = <<>>

C13_SuccessOnlyIfVerified ==
  /\ engResult = "true" => engVerified
  /\ engPaste = "false" => ~engSubmitted /\ engResult # "true"

\* C14: the layers are tried in the order clipboard, execCommand, type; no
\* layer is tried once a verification has passed; insertion returns true
\* exactly when a verification passed; and on an editor where the paste
\* shortcut inserts nothing but execCommand inserts the text, insertion
\* returns true with the clipboard layer tried first.
C14_FallbackOrder ==
  /\ engTried = SubSeq(<<"clipboard", "execCommand", "type">>, 1, Len(engTried))
  /\ engVerified => engPc \in {"submit", "done"}
  /\ engPaste # "none" => (engPaste = "true" <=> engVerified)
  /\ engPaste = "none" => ~engVerified
  /\ engPaste # "none" /\ engPageOk /\ engEditor.focus /\ ~engEditor.clip
       /\ engEditor.exec = "insert"
       => engPaste = "true" /\ Len(engTried) >= 2 /\ engTried[1] = "clipboard"

\* C15: an act that succeeds raises commentsPosted by one (up to the cap
\* MaxPosted) and starts a cool-down drawn from the configured range, which
\* is waited in full before the first Tab of the advance loop; an act that
\* fails leaves the count alone, starts no cool-down and goes straight to
\* the advance loop; nothing else raises the count or starts a cool-down.
C15_OutcomeHandling ==
  [][\A l \in Loops :
       /\ loopPc[l] = "generate" /\ loopPc'[l] = "cooldown"
            => /\ commentsPosted' = (IF commentsPosted < MaxPosted
                                       THEN commentsPosted + 1 ELSE commentsPosted)
               /\ cdLen'[l] >= EffectiveTiming.min /\ cdLen'[l] <= EffectiveTiming.max
               /\ cdTotal'[l] = 0
       /\ loopPc'[l] = "cooldown" /\ loopPc[l] # "cooldown" => loopPc[l] = "generate"
       /\ loopPc[l] = "cooldown" /\ loopPc'[l] = "advCheck" => cdTotal[l] >= cdLen[l]
       /\ loopPc[l] \in {"act", "generate"} /\ loopPc'[l] \notin {"act", "generate", "cooldown"}
            => /\ loopPc'[l] = "advKey"
               /\ commentsPosted' = commentsPosted
               /\ cdLen'[l] = 0
       /\ commentsPosted' > commentsPosted
            => \E k \in Loops : loopPc[k] = "generate" /\ loopPc'[k] = "cooldown"]_vars

\* C15 witness: the first comment has been counted and its cool-down has
\* run its full length.
C15_CooledDown ==
  \E l \in Loops :
    /\ loopPc[l] = "cooldown" /\ commentsPosted = 1
    /\ cdLen[l] > 0 /\ cdTotal[l] >= cdLen[l]

\* C16: after a failed act the loop eventually is back at the head of an
\* iteration (the Tab press or the pause wait), unless it has exited.
C16_FailureReturnsToTabbing ==
  \A l \in Loops :
    (loopPc[l] = "advKey") ~> (loopPc[l] \in {"tabPress", "pauseWait", "done"})

C18_DecisionGating ==
  [][\A l \in Loops :
       /\ loopPc'[l] = "deciding" => optimizeEngagement'
       /\ (\E i \in Items : entered'[l][i] > entered[l][i]) /\ ~optimizeEngagement
            => loopPc'[l] = "act"
       /\ loopPc'[l] \in {"act", "generate"} => loopPost'[l] \notin declined'
       /\ loopPc'[l] = "deciding" /\ loopPc[l] # "deciding" => loopPost'[l] \notin declined]_vars

\* C19: the seen-item set only grows while an automation run is in progress:
\* an identifier leaves it only in the step that begins a run
\* (start-keyboard) or when stop() ends the session with no run in progress,
\* and the set is empty when a run begins.
C19_SeenMonotone ==
  [][/\ ~(seenPostIds \subseteq seenPostIds')
          => \/ \E l \in Loops : loopPc[l] = "none" /\ loopPc'[l] = "top"
             \/ ~keyboardLoopActive'
     /\ (\E l \in Loops : loopPc[l] = "none" /\ loopPc'[l] = "top")
          => seenPostIds' = {}]_vars

\* C20: once a start() has returned a structured failure (NAV_TIMEOUT or
\* START_ERROR) and no other start() is in progress, the runner is not running,
\* holds no page, no browser and no persistent context, and accepts a start.
C20_FailedStartReleases ==
  \A s \in Starts :
    /\ startPc[s] = "done"
    /\ startResult[s] \in {"NAV_TIMEOUT", "START_ERROR"}
    /\ \A t \in Starts \ {s} : startPc[t] = "idle"
    => /\ ~isRunning
       /\ StartAccepts
       /\ page = NoPage
       /\ browser = 0
       /\ context = 0

\* C21: a stop() that returns has set the cooperative stop flag, and its
\* response carries the statistics as they were before the reset together
\* with the trace and recording paths.
C21_StopResponse ==
  [][stopResponse' # stopResponse
       => /\ stopRequested'
          /\ stopResponse'.stats = commentsPosted
          /\ stopResponse'.artifacts = ArtifactKeys]_vars

\* C22: a pause or resume request made while the automation loop is not
\* active is answered with 400 and leaves the paused flag and the reported
\* status as they were.
C22_ControlOnlyWhileActive ==
  [][ctlReply'.op \in {"pause", "resume"} /\ ~keyboardLoopActive
       => /\ ctlReply'.status = 400
          /\ isPaused' = isPaused
          /\ StatusOf(isPaused', keyboardLoopActive')
               = StatusOf(isPaused, keyboardLoopActive)]_vars

C22_PauseRefused ==
  /\ ctlReply = Reply("pause", FALSE)
  /\ isRunning /\ ~keyboardLoopActive /\ ~isPaused

\* C23: a pause request while already paused, and a resume request while not
\* paused, are answered with 400 and change no runner field.
C23_IdempotencyErrors ==
  [][/\ ctlReply'.op = "pause" /\ isPaused
          => ctlReply'.status = 400 /\ UNCHANGED runnerVars
     /\ ctlReply'.op = "resume" /\ ~isPaused
          => ctlReply'.status = 400 /\ UNCHANGED runnerVars]_vars

\* C24: a pending decision or content-generation request is never older than
\* its configured timeout, whatever the service does.
C24_TimeoutsAuthoritative ==
  callPc \in {"fetch", "body"} => callClock <= CallTimeout(callKind)

\* C25: a status request changes no field of the session (flags, handles,
\* statistics, timing, seen set, loop and request positions) and reports the
\* state as it is.
C25_StatusIsPure ==
  [][ctlReply'.op = "status"
       => /\ UNCHANGED <<runnerVars, pageStatus, startVars, stopVars, loopVars, cdVars, tabLen>>
          /\ ctlReply'.state
               = IF isPaused THEN "paused"
                 ELSE IF keyboardLoopActive THEN "running" ELSE "stopped"]_vars

C25_StatusWhilePaused ==
  /\ ctlReply.op = "status" /\ ctlReply.state = "paused"
  /\ commentsPosted > 0 /\ seenPostIds # {}

\* C26: when the decision service has answered with a JSON body, the verdict
\* is the lower-cased value, whatever the casing of the key and of the value.
C26_CaseInsensitive ==
  callKind = "decision" /\ callPc = "done" /\ callResult = "answer"
    => callVerdict = ToLowerCase(callBody.value)

\* C27: once the readiness race is decided, the page is judged ready exactly
\* when some candidate appears within the timeout of its wait.
C27_ReadyIffSomeCandidate ==
  rdResult # "none"
    => (rdResult = "ready" <=> \E c \in Candidates : Appears(rdAppear, c))

C29_DelaysInRange ==
  [][\A l \in Loops :
       /\ loopPc[l] = "tabPress" /\ loopPc'[l] = "tabDelay"
            => /\ tabLen'[l] >= 0
               /\ \/ EffectiveTiming.tabMin <= tabLen'[l] /\ tabLen'[l] <= EffectiveTiming.tabMax
                  \/ EffectiveTiming.tabMax <= tabLen'[l] /\ tabLen'[l] <= EffectiveTiming.tabMin
       /\ loopPc[l] # "cooldown" /\ loopPc'[l] = "cooldown"
            => /\ cdLen'[l] >= 0
               /\ \/ EffectiveTiming.min <= cdLen'[l] /\ cdLen'[l] <= EffectiveTiming.max
                  \/ EffectiveTiming.max <= cdLen'[l] /\ cdLen'[l] <= EffectiveTiming.min]_vars

C29_SwappedRange ==
  \E l \in Loops :
    /\ loopPc[l] = "cooldown"
    /\ timing.min > timing.max /\ cdLen[l] < timing.min
    /\ timing.tabMin > timing.tabMax /\ tabLen[l] < timing.tabMin


\* C30: on a page that brings three distinct posts into focus one after the
\* other, in default mode and with a content request that always returns
\* text, the loop acts on the first, then the second, then the third, once
\* each: the seen set grows in that order, every seen post but the one in
\* hand has been acted on, and once focus has reached the end of the page
\* commentsPosted is 3 and the seen set holds exactly the three posts.
C30_EndToEnd ==
  /\ seenPostIds \in {{FeedOrder[k] : k \in 1..n} : n \in 0..3}
  /\ commentsPosted \in {Cardinality(seenPostIds) - 1, Cardinality(seenPostIds)}
  /\ feed.layout # <<>> /\ feed.at = Len(feed.layout)
       => commentsPosted = 3 /\ seenPostIds = {FeedOrder[k] : k \in 1..3}

\* C31: the stored icon flag follows what the page shows: once no
\* UPDATE_ICON_STATE message and no storage callback is outstanding, the flag
\* is true exactly when the sidebar is open or the mini icon element is in
\* the page, whichever way the sticky was closed.
C31_IconFollowsVisibility ==
  iconMsgs = <<>> /\ stickySaves = 0 => (iconActive <=> (sidebarShown \/ miniIconEl))

\* C39: the mini icon element is in the page only while the sidebar is
\* closed, and miniIconVisible is true exactly when the element is there.
C39_SidebarExcludesMiniIcon ==
  /\ miniIconEl => ~sidebarShown
  /\ miniIconVisible <=> miniIconEl

C36_PauseFreezes ==
  [][/\ rendered' = rendered /\ reloads' = reloads /\ started' = started /\ rendered > 0
        /\ clState[rendered].pausedAt # 0
        /\ clState'[rendered] # NoTimer /\ clState'[rendered].pausedAt = 0
          => RemainingMs(clState'[rendered], now') = RemainingMs(clState[rendered], now)
     /\ \A c \in Renders :
          /\ started' = started /\ reloads' = reloads
          /\ clState[c] # NoTimer /\ clState[c].pausedAt = 0
          /\ clState'[c] # NoTimer /\ clState'[c].pausedAt = 0
          => RemainingMs(clState'[c], now') <= RemainingMs(clState[c], now)
     /\ launches' > launches
          => ~(/\ rendered > 0 /\ rendered' = rendered
               /\ clState[rendered].pausedAt # 0 /\ clState'[rendered].pausedAt # 0)]_vars

\* C37: the launch message is sent at most once per started countdown,
\* however often the Home controls are rendered while it runs.
C37_LaunchOncePerCountdown == launches <= started

\* C33: what sanitizeSettings() returns has every numeric field at or above
\* zero and min <= max in every pair, a pair given with min > max comes out
\* swapped, and sanitizing the result again changes nothing.
C33_SanitizedRanges ==
  sanitizePc \in {"once", "twice"}
    => /\ \A f \in NumericFields : sanitized[f] >= 0
       /\ \A pr \in MinMaxPairs : sanitized[pr[1]] <= sanitized[pr[2]]
       /\ sanitizePc = "once" =>
            \A pr \in MinMaxPairs :
              LET lo == Max0(formSettings[pr[1]])
                  hi == Max0(formSettings[pr[2]])
              IN IF lo > hi
                   THEN sanitized[pr[1]] = hi /\ sanitized[pr[2]] = lo
                   ELSE sanitized[pr[1]] = lo /\ sanitized[pr[2]] = hi
       /\ sanitizePc = "twice" => sanitized = formSettings

\* C33 witness: a form with a negative field and a pair given the wrong way
\* round has been sanitized: the field is 0 and the pair is swapped.
C33_SwappedAndClamped ==
  /\ sanitizePc = "once"
  /\ formSettings["maxActions"] = -1 /\ sanitized["maxActions"] = 0
  /\ formSettings["waitActionMinMs"] = 2 /\ formSettings["waitActionMaxMs"] = 1
  /\ sanitized["waitActionMinMs"] = 1 /\ sanitized["waitActionMaxMs"] = 2

\* C38: no write is lost: once the queue is empty, no timer is pending and
\* no storage write is in progress, chrome.storage.local holds for every key
\* the value the cache holds.
C38_NoLostWrite ==
  smQueue = <<>> /\ ~smTimer /\ smWrites = <<>>
    => \A k \in SmKeys : smStore[k] = smCache[k]


\* C34: once stop() has returned, the session is not paused: a status request
\* then does not report "paused", and the next loop does not wait for a resume.
C34_StopResetsPause ==
  stopResponse # NoResponse /\ stopPc = "idle"
    => ~isPaused /\ StatusOf(isPaused, keyboardLoopActive) # "paused"


\* C35: a start-keyboard request that carries timing leaves the runner with
\* the ranges of a payload as they were given, bounds of 0 included: the
\* cool-down and tab-delay bounds in effect are those of the request and no
\* built-in default takes the place of one of them.
C35_TimingAsGiven ==
  [][timing' # timing => EffectiveTiming' \in TimingChoices]_vars

============================================================================
